---- MODULE Spec2Model ----
(***************************************************************************)
(* A model of the resume tailoring pipeline: the agents' post-processing   *)
(* of the generation step's JSON (ResumeTailorAgent.tailor,                *)
(* FactCheckerAgent.verify, SkillMatcherAgent.match), the change report    *)
(* (ResumeOrchestrator._generate_change_report) and the coordinator        *)
(* (ResumeOrchestrator.process).                                           *)
(*                                                                         *)
(* A JSON object returned by the generation step is a record whose fields  *)
(* say whether the key is absent, null or carries a value: a string field  *)
(* is the string, Absent or Null; a list or number field is a record       *)
(* [k |-> "absent" | "null" | "val", v |-> the value].  Python's None is   *)
(* the string None.  Scores are floats in the code; the model uses         *)
(* integers, on which +, min and comparison agree with the floats'.        *)
(***************************************************************************)
EXTENDS Integers, Sequences, FiniteSets, TLC

\* ------------------------------------------------------------------ bounds
MaxExperiences == 2
MaxGenerated == 3
MaxIssues == 2
MaxChanges == 10
MaxMatched == 2
ScoreMargin == 5
MaxSkills == 1

\* ------------------------------------------------------------------ JSON
Absent == "<absent>"
Null == "<null>"
None == "<None>"

AbsentKey == [k |-> "absent", v |-> <<>>]
NullKey == [k |-> "null", v |-> <<>>]
ListKey(s) == [k |-> "val", v |-> s]

\* dict.get(key, default) on a string field
Get(x, default) == IF x = Absent THEN default ELSE IF x = Null THEN None ELSE x

\* dict.get(key, default) on a list field whose value is a list (not null)
GetList(x, default) == IF x.k = "absent" THEN default ELSE x.v

SeqsUpTo(S, n) == UNION {[1..m -> S] : m \in 0..n}

Min(a, b) == IF a < b THEN a ELSE b

\* ------------------------------------------------------------------ records
ExpAcme ==
  [company |-> "Acme Corp", title |-> "Engineer", start_date |-> "2020-01",
   end_date |-> "2022-01", location |-> None,
   bullets |-> <<"Built X", "Led Y">>, original_text |-> "Acme Corp raw"]

ExpGlobex ==
  [company |-> "Globex", title |-> "Manager", start_date |-> "2022-02",
   end_date |-> None, location |-> "Remote",
   bullets |-> <<"Ran Z">>, original_text |-> "Globex raw"]

OriginalExperiences == {ExpAcme, ExpGlobex}

ResumeWith(exps) ==
  [contact |-> [name |-> "Jane Doe", email |-> None, phone |-> None,
                location |-> None, linkedin |-> None, website |-> None],
   summary |-> "Original summary",
   experiences |-> exps,
   education |-> <<[institution |-> "MIT", degree |-> "BSc", field |-> None,
                    graduation_date |-> "2019", gpa |-> None, honors |-> None]>>,
   skills |-> <<"Python", "SQL">>,
   projects |-> <<[name |-> "Proj", description |-> "Desc",
                   technologies |-> <<"Python">>, url |-> None]>>,
   certifications |-> <<"AWS">>,
   languages |-> <<"English">>,
   raw_text |-> "resume text"]

Resumes == {ResumeWith(e) : e \in SeqsUpTo(OriginalExperiences, MaxExperiences)}

NoResume == ResumeWith(<<>>)

\* ------------------------------------------------------------------ tailor
\* experience objects the generation step can return
GenForged ==
  [company |-> "Initech", title |-> "CEO", start_date |-> "1999-01",
   end_date |-> "1999-12", location |-> "Mars",
   bullets |-> ListKey(<<"Rephrased">>), original_text |-> "forged"]

GenEmpty ==
  [company |-> Absent, title |-> Absent, start_date |-> Absent,
   end_date |-> Absent, location |-> Absent,
   bullets |-> AbsentKey, original_text |-> Absent]

GenNullBullets ==
  [company |-> "Acme Corp", title |-> "Engineer", start_date |-> "2020-01",
   end_date |-> Null, location |-> Null,
   bullets |-> NullKey, original_text |-> Absent]

GenNullCompany ==
  [company |-> Null, title |-> "Engineer", start_date |-> "2020-01",
   end_date |-> Null, location |-> Null,
   bullets |-> ListKey(<<"Led Y", "Built X">>), original_text |-> Absent]

GeneratedExperiences == {GenForged, GenEmpty, GenNullBullets, GenNullCompany}

Change(section) ==
  [section |-> section, original |-> "old", modified |-> "new", reason |-> "why"]

TailorDataWith(exps, summary, skills, changes) ==
  [summary |-> summary, experiences |-> exps, skills |-> skills,
   changes |-> changes]

\* Experience(...) in the loop of tailor, for the returned entry at position i
\* (1-based here, 0-based in the code)
TailoredExperience(resume, i, exp_data) ==
  IF i <= Len(resume.experiences)
  THEN LET original_exp == resume.experiences[i]
       IN [company |-> original_exp.company,
           title |-> original_exp.title,
           start_date |-> original_exp.start_date,
           end_date |-> original_exp.end_date,
           location |-> original_exp.location,
           bullets |-> GetList(exp_data.bullets, original_exp.bullets),
           original_text |-> original_exp.original_text]
  ELSE [company |-> Get(exp_data.company, ""),
        title |-> Get(exp_data.title, ""),
        start_date |-> Get(exp_data.start_date, ""),
        end_date |-> Get(exp_data.end_date, None),
        location |-> Get(exp_data.location, None),
        bullets |-> GetList(exp_data.bullets, <<>>),
        original_text |-> ""]

\* pydantic rejects Experience(...) when a required str is None or bullets is
\* not a list
ExperienceInvalid(resume, i, exp_data) ==
  \/ exp_data.bullets.k = "null"
  \/ /\ i > Len(resume.experiences)
     /\ \/ exp_data.company = Null
        \/ exp_data.title = Null
        \/ exp_data.start_date = Null

ChangeInvalid(change_data) ==
  \/ change_data.section = Null
  \/ change_data.original = Null
  \/ change_data.modified = Null
  \/ change_data.reason = Null

\* the cases in which tailor raises after the response was parsed
TailorRaises(resume, data) ==
  \/ data.experiences.k = "null"
  \/ \E i \in 1..Len(data.experiences.v) :
        ExperienceInvalid(resume, i, data.experiences.v[i])
  \/ data.changes.k = "null"
  \/ \E i \in 1..Len(data.changes.v) : ChangeInvalid(data.changes.v[i])
  \/ data.skills.k = "null"

\* tailor taking the sections the generation step returned, when it returns them
tailor_takes_sections(resume, data) ==
  LET returned == GetList(data.experiences, <<>>)
      tailored_experiences ==
        [i \in 1..Len(returned) |-> TailoredExperience(resume, i, returned[i])]
      Section(key, original) ==
        IF key \in DOMAIN data THEN GetList(data[key], original) ELSE original
  IN [contact |-> resume.contact,
      summary |-> IF data.summary \in {Absent, Null, ""}
                  THEN resume.summary ELSE data.summary,
      experiences |-> tailored_experiences,
      education |-> Section("education", resume.education),
      skills |-> GetList(data.skills, resume.skills),
      projects |-> Section("projects", resume.projects),
      certifications |-> Section("certifications", resume.certifications),
      changes |->
        [i \in 1..Len(GetList(data.changes, <<>>)) |->
           [section |-> Get(data.changes.v[i].section, ""),
            original |-> Get(data.changes.v[i].original, ""),
            modified |-> Get(data.changes.v[i].modified, ""),
            reason |-> Get(data.changes.v[i].reason, "")]]]

\* tailor reading the summary with data.get("summary", resume.summary)
tailor_summary_by_key(resume, data) ==
  LET returned == GetList(data.experiences, <<>>)
      tailored_experiences ==
        [i \in 1..Len(returned) |-> TailoredExperience(resume, i, returned[i])]
      returned_changes == GetList(data.changes, <<>>)
      changes ==
        [i \in 1..Len(returned_changes) |->
           [section |-> Get(returned_changes[i].section, ""),
            original |-> Get(returned_changes[i].original, ""),
            modified |-> Get(returned_changes[i].modified, ""),
            reason |-> Get(returned_changes[i].reason, "")]]
  IN [contact |-> resume.contact,
      summary |-> Get(data.summary, resume.summary),
      experiences |-> tailored_experiences,
      education |-> resume.education,
      skills |-> GetList(data.skills, resume.skills),
      projects |-> resume.projects,
      certifications |-> resume.certifications,
      changes |-> changes]

tailor(resume, data) ==
  LET returned == GetList(data.experiences, <<>>)
      tailored_experiences ==
        [i \in 1..Len(returned) |-> TailoredExperience(resume, i, returned[i])]
      returned_changes == GetList(data.changes, <<>>)
      changes ==
        [i \in 1..Len(returned_changes) |->
           [section |-> Get(returned_changes[i].section, ""),
            original |-> Get(returned_changes[i].original, ""),
            modified |-> Get(returned_changes[i].modified, ""),
            reason |-> Get(returned_changes[i].reason, "")]]
  IN [contact |-> resume.contact,
      summary |-> IF data.summary \in {Absent, Null, ""}
                  THEN resume.summary ELSE data.summary,
      experiences |-> tailored_experiences,
      education |-> resume.education,
      skills |-> GetList(data.skills, resume.skills),
      projects |-> resume.projects,
      certifications |-> resume.certifications,
      changes |-> changes]

\* ------------------------------------------------------------------ verify
IssueData(location, severity) ==
  [location |-> location, issue |-> "problem", original_text |-> "was",
   modified_text |-> "became", severity |-> severity]

\* severities the generation step can return for an issue
ReturnedSeverities == {"critical", "warning", "Critical", Absent, Null}

VerifyDataWith(status, issues, warnings) ==
  [status |-> status, issues |-> issues, warnings |-> warnings]

\* pydantic rejects VerificationIssue(...) when a str field is None
IssueInvalid(issue_data) ==
  \/ issue_data.location = Null
  \/ issue_data.issue = Null
  \/ issue_data.original_text = Null
  \/ issue_data.modified_text = Null
  \/ issue_data.severity = Null

\* the cases in which verify raises after the response was parsed
VerifyRaises(data) ==
  \/ data.issues.k = "null"
  \/ \E i \in 1..Len(data.issues.v) : IssueInvalid(data.issues.v[i])
  \/ data.warnings.k = "null"


\* verify taking the status the generation step reported
verify_trusts_status(original, tailored, data) ==
  LET returned == GetList(data.issues, <<>>)
      issues ==
        [i \in 1..Len(returned) |->
           [location |-> Get(returned[i].location, ""),
            issue |-> Get(returned[i].issue, ""),
            original_text |-> Get(returned[i].original_text, ""),
            modified_text |-> Get(returned[i].modified_text, ""),
            severity |-> Get(returned[i].severity, "warning")]]
      has_critical == \E i \in 1..Len(issues) : issues[i].severity = "critical"
  IN [status |-> IF data.status \in {"approved", "flagged"} THEN data.status
                 ELSE IF has_critical THEN "flagged" ELSE "approved",
      issues |-> issues,
      warnings |-> GetList(data.warnings, <<>>)]

verify(original, tailored, data) ==
  LET returned == GetList(data.issues, <<>>)
      issues ==
        [i \in 1..Len(returned) |->
           [location |-> Get(returned[i].location, ""),
            issue |-> Get(returned[i].issue, ""),
            original_text |-> Get(returned[i].original_text, ""),
            modified_text |-> Get(returned[i].modified_text, ""),
            severity |-> Get(returned[i].severity, "warning")]]
      has_critical == \E i \in 1..Len(issues) : issues[i].severity = "critical"
  IN [status |-> IF has_critical THEN "flagged" ELSE "approved",
      issues |-> issues,
      warnings |-> GetList(data.warnings, <<>>)]

\* ------------------------------------------------------------------ match
AbsentNumber == [k |-> "absent", v |-> 0]
NullNumber == [k |-> "null", v |-> 0]
Number(n) == [k |-> "val", v |-> n]

SkillData(skill, strength, evidence, suggestion) ==
  [skill |-> skill, strength |-> strength, resume_evidence |-> evidence,
   suggestion |-> suggestion]

MatchDataWith(matched, missing, transferable, score) ==
  [matched_skills |-> matched, missing_skills |-> missing,
   transferable_skills |-> transferable, match_score |-> score,
   summary |-> "Overall assessment"]

\* m["skill"] raises KeyError on an absent key; pydantic rejects a None skill or
\* suggestion and an evidence value that is not a list
SkillInvalid(m, with_evidence) ==
  \/ m.skill \in {Absent, Null}
  \/ m.suggestion = Null
  \/ with_evidence /\ m.resume_evidence.k = "null"

\* the cases in which match raises after the response was parsed
MatchRaises(data) ==
  \/ data.matched_skills.k = "null"
  \/ \E i \in 1..Len(data.matched_skills.v) :
        SkillInvalid(data.matched_skills.v[i], TRUE)
  \/ data.missing_skills.k = "null"
  \/ \E i \in 1..Len(data.missing_skills.v) :
        SkillInvalid(data.missing_skills.v[i], FALSE)
  \/ data.transferable_skills.k = "null"
  \/ \E i \in 1..Len(data.transferable_skills.v) :
        SkillInvalid(data.transferable_skills.v[i], TRUE)
  \/ data.match_score.k = "null"
  \/ data.summary = Null

\* float(data.get("match_score", 0))
MatchScore(data) ==
  IF data.match_score.k = "absent" THEN 0 ELSE data.match_score.v

\* match building the missing list the way it builds the matched list
match_missing_as_returned(resume, job, data) ==
  LET m1 == GetList(data.matched_skills, <<>>)
      m2 == GetList(data.missing_skills, <<>>)
      m3 == GetList(data.transferable_skills, <<>>)
      Built(m, weakest) ==
        [i \in 1..Len(m) |->
           [skill |-> m[i].skill,
            strength |-> IF m[i].strength = "strong" THEN "strong" ELSE weakest,
            resume_evidence |-> GetList(m[i].resume_evidence, <<>>),
            suggestion |-> Get(m[i].suggestion, "")]]
  IN [matched_skills |-> Built(m1, "partial"),
      missing_skills |-> Built(m2, "missing"),
      transferable_skills |->
        [i \in 1..Len(m3) |->
           [skill |-> m3[i].skill,
            strength |-> "partial",
            resume_evidence |-> GetList(m3[i].resume_evidence, <<>>),
            suggestion |-> Get(m3[i].suggestion, "")]],
      match_score |-> MatchScore(data),
      summary |-> Get(data.summary, "")]

\* match keeping the strength the generation step returned
match_strength_as_returned(resume, job, data) ==
  LET m1 == GetList(data.matched_skills, <<>>)
      m2 == GetList(data.missing_skills, <<>>)
      m3 == GetList(data.transferable_skills, <<>>)
  IN [matched_skills |->
        [i \in 1..Len(m1) |->
           [skill |-> m1[i].skill,
            strength |-> IF m1[i].strength \in {"strong", "missing"}
                         THEN m1[i].strength ELSE "partial",
            resume_evidence |-> GetList(m1[i].resume_evidence, <<>>),
            suggestion |-> Get(m1[i].suggestion, "")]],
      missing_skills |->
        [i \in 1..Len(m2) |->
           [skill |-> m2[i].skill,
            strength |-> "missing",
            resume_evidence |-> <<>>,
            suggestion |-> Get(m2[i].suggestion, "")]],
      transferable_skills |->
        [i \in 1..Len(m3) |->
           [skill |-> m3[i].skill,
            strength |-> IF m3[i].strength \in {"strong", "missing"}
                         THEN m3[i].strength ELSE "partial",
            resume_evidence |-> GetList(m3[i].resume_evidence, <<>>),
            suggestion |-> Get(m3[i].suggestion, "")]],
      match_score |-> MatchScore(data),
      summary |-> Get(data.summary, "")]

match(resume, job, data) ==
  LET m1 == GetList(data.matched_skills, <<>>)
      m2 == GetList(data.missing_skills, <<>>)
      m3 == GetList(data.transferable_skills, <<>>)
  IN [matched_skills |->
        [i \in 1..Len(m1) |->
           [skill |-> m1[i].skill,
            strength |-> IF m1[i].strength = "strong" THEN "strong" ELSE "partial",
            resume_evidence |-> GetList(m1[i].resume_evidence, <<>>),
            suggestion |-> Get(m1[i].suggestion, "")]],
      missing_skills |->
        [i \in 1..Len(m2) |->
           [skill |-> m2[i].skill,
            strength |-> "missing",
            resume_evidence |-> <<>>,
            suggestion |-> Get(m2[i].suggestion, "")]],
      transferable_skills |->
        [i \in 1..Len(m3) |->
           [skill |-> m3[i].skill,
            strength |-> "partial",
            resume_evidence |-> GetList(m3[i].resume_evidence, <<>>),
            suggestion |-> Get(m3[i].suggestion, "")]],
      match_score |-> MatchScore(data),
      summary |-> Get(data.summary, "")]

\* ------------------------------------------------------------------ report
\* a formatted string is the sequence of its pieces
Text(s) == <<s>>

KeyImprovement(m) == <<"Highlighted ", m.skill, ": ", m.suggestion>>

IssueWarning(issue) == <<issue.location, ": ", issue.issue>>

RECURSIVE KeyImprovements(_)
KeyImprovements(matches) ==
  IF matches = <<>> THEN <<>>
  ELSE (IF Head(matches).suggestion # ""
        THEN <<KeyImprovement(Head(matches))>> ELSE <<>>)
       \o KeyImprovements(Tail(matches))

\* the warnings taking an entry from every issue, whatever its severity
IssueWarnings_any_severity(issues) ==
  [i \in 1..Len(issues) |-> IssueWarning(issues[i])]

RECURSIVE IssueWarnings(_)
IssueWarnings(issues) ==
  IF issues = <<>> THEN <<>>
  ELSE (IF Head(issues).severity = "warning"
        THEN <<IssueWarning(Head(issues))>> ELSE <<>>)
       \o IssueWarnings(Tail(issues))

\* a tally that records each section once instead of counting it
ChangesBySection_overwrites(changes) ==
  [s \in {changes[i].section : i \in 1..Len(changes)} |-> 1]

ChangesBySection(changes) ==
  [s \in {changes[i].section : i \in 1..Len(changes)} |->
     Cardinality({i \in 1..Len(changes) : changes[i].section = s})]


\* the boost without its cap of 15
ImprovedScore_uncapped_boost(match_score, n_changes) ==
  Min(match_score + n_changes * 2, 100)

ImprovedScore(match_score, n_changes) ==
  LET improvement_boost == Min(n_changes * 2, 15)
  IN Min(match_score + improvement_boost, 100)

generate_change_report(skill_matches, tailored, verification) ==
  [original_match_score |-> skill_matches.match_score,
   improved_match_score |->
     ImprovedScore(skill_matches.match_score, Len(tailored.changes)),
   total_changes |-> Len(tailored.changes),
   changes_by_section |-> ChangesBySection(tailored.changes),
   key_improvements |->
     KeyImprovements(SubSeq(skill_matches.matched_skills, 1,
                            Min(5, Len(skill_matches.matched_skills)))),
   warnings |->
     [i \in 1..Len(verification.warnings) |-> Text(verification.warnings[i])]
       \o IssueWarnings(verification.issues),
   verification |-> verification]

\* ------------------------------------------------------------------ parse
ContactData(name) ==
  [k |-> "val", name |-> name, email |-> Absent, phone |-> Absent,
   location |-> Absent, linkedin |-> Absent, website |-> Absent]

AbsentContact ==
  [k |-> "absent", name |-> Absent, email |-> Absent, phone |-> Absent,
   location |-> Absent, linkedin |-> Absent, website |-> Absent]

ParseDataWith(raw_text, contact, exps) ==
  [raw_text |-> raw_text, contact |-> contact, summary |-> Absent,
   experiences |-> exps, education |-> AbsentKey, skills |-> AbsentKey,
   projects |-> AbsentKey, certifications |-> AbsentKey,
   languages |-> AbsentKey]

\* pydantic rejects a None for a str field and a non-list for a list field
ParsedExperienceInvalid(exp_data) ==
  \/ exp_data.company = Null
  \/ exp_data.title = Null
  \/ exp_data.start_date = Null
  \/ exp_data.original_text = Null
  \/ exp_data.bullets.k = "null"

\* the cases in which parse raises after the response was parsed
ParseRaises(data) ==
  \/ data.contact.k = "null"
  \/ data.contact.name = Null
  \/ data.experiences.k = "null"
  \/ \E i \in 1..Len(data.experiences.v) :
        ParsedExperienceInvalid(data.experiences.v[i])
  \/ data.education.k = "null"
  \/ \E i \in 1..Len(data.education.v) :
        data.education.v[i].institution = Null \/ data.education.v[i].degree = Null
  \/ data.projects.k = "null"
  \/ \E i \in 1..Len(data.projects.v) :
        \/ data.projects.v[i].name = Null
        \/ data.projects.v[i].description = Null
        \/ data.projects.v[i].technologies.k = "null"
  \/ data.skills.k = "null"
  \/ data.certifications.k = "null"
  \/ data.languages.k = "null"

\* the raw_text both extractors keep: the model's when it is a non-empty
\* string, the input text otherwise
PreservedRawText(returned, input_text) ==
  IF returned \in {Absent, Null, ""} THEN input_text ELSE returned

parse(input_text, data) ==
  LET e == GetList(data.experiences, <<>>)
      ed == GetList(data.education, <<>>)
      pr == GetList(data.projects, <<>>)
  IN [contact |->
        [name |-> Get(data.contact.name, "Unknown"),
         email |-> Get(data.contact.email, None),
         phone |-> Get(data.contact.phone, None),
         location |-> Get(data.contact.location, None),
         linkedin |-> Get(data.contact.linkedin, None),
         website |-> Get(data.contact.website, None)],
      summary |-> Get(data.summary, None),
      experiences |->
        [i \in 1..Len(e) |->
           [company |-> Get(e[i].company, "Unknown"),
            title |-> Get(e[i].title, "Unknown"),
            start_date |-> Get(e[i].start_date, ""),
            end_date |-> Get(e[i].end_date, None),
            location |-> Get(e[i].location, None),
            bullets |-> GetList(e[i].bullets, <<>>),
            original_text |-> Get(e[i].original_text, "")]],
      education |->
        [i \in 1..Len(ed) |->
           [institution |-> Get(ed[i].institution, "Unknown"),
            degree |-> Get(ed[i].degree, ""),
            field |-> Get(ed[i].field, None),
            graduation_date |-> Get(ed[i].graduation_date, None),
            gpa |-> Get(ed[i].gpa, None),
            honors |-> Get(ed[i].honors, None)]],
      skills |-> GetList(data.skills, <<>>),
      projects |->
        [i \in 1..Len(pr) |->
           [name |-> Get(pr[i].name, ""),
            description |-> Get(pr[i].description, ""),
            technologies |-> GetList(pr[i].technologies, <<>>),
            url |-> Get(pr[i].url, None)]],
      certifications |-> GetList(data.certifications, <<>>),
      languages |-> GetList(data.languages, <<>>),
      raw_text |-> PreservedRawText(data.raw_text, input_text)]

\* ------------------------------------------------------------------ analyze
RequirementsData(required_skills, keywords) ==
  [k |-> "val", required_skills |-> required_skills,
   preferred_skills |-> AbsentKey, experience_years |-> AbsentNumber,
   experience_description |-> Absent, education_requirements |-> AbsentKey,
   certifications |-> AbsentKey, soft_skills |-> AbsentKey,
   keywords |-> keywords]

AbsentRequirements ==
  [k |-> "absent", required_skills |-> AbsentKey,
   preferred_skills |-> AbsentKey, experience_years |-> AbsentNumber,
   experience_description |-> Absent, education_requirements |-> AbsentKey,
   certifications |-> AbsentKey, soft_skills |-> AbsentKey,
   keywords |-> AbsentKey]

AnalyzeDataWith(raw_text, title, requirements) ==
  [raw_text |-> raw_text, title |-> title, company |-> Absent,
   location |-> Absent, description |-> "Build things",
   requirements |-> requirements, responsibilities |-> AbsentKey,
   benefits |-> AbsentKey]

\* the cases in which analyze raises after the response was parsed
AnalyzeRaises(data) ==
  \/ data.requirements.k = "null"
  \/ data.requirements.required_skills.k = "null"
  \/ data.requirements.preferred_skills.k = "null"
  \/ data.requirements.education_requirements.k = "null"
  \/ data.requirements.certifications.k = "null"
  \/ data.requirements.soft_skills.k = "null"
  \/ data.requirements.keywords.k = "null"
  \/ data.title = Null
  \/ data.description = Null
  \/ data.responsibilities.k = "null"
  \/ data.benefits.k = "null"

\* experience_years is Optional[int]: None when the key is absent or null
YearsOrNone(x) == IF x.k = "val" THEN x ELSE NullNumber

analyze(input_text, data) ==
  [title |-> Get(data.title, "Unknown Position"),
   company |-> Get(data.company, None),
   location |-> Get(data.location, None),
   description |-> Get(data.description, ""),
   requirements |->
     [required_skills |-> GetList(data.requirements.required_skills, <<>>),
      preferred_skills |-> GetList(data.requirements.preferred_skills, <<>>),
      experience_years |-> YearsOrNone(data.requirements.experience_years),
      experience_description |->
        Get(data.requirements.experience_description, None),
      education_requirements |->
        GetList(data.requirements.education_requirements, <<>>),
      certifications |-> GetList(data.requirements.certifications, <<>>),
      soft_skills |-> GetList(data.requirements.soft_skills, <<>>),
      keywords |-> GetList(data.requirements.keywords, <<>>)],
   responsibilities |-> GetList(data.responsibilities, <<>>),
   benefits |-> GetList(data.benefits, <<>>),
   raw_text |-> PreservedRawText(data.raw_text, input_text)]

\* ------------------------------------------------------------------ process
VARIABLES
  pc,               \* position of process in its body
  on_progress,      \* "sink" when the caller supplied a progress sink, "none"
  progress,         \* what the sink has received: <<message, percent>> pairs
  response,         \* the parsed JSON of the inference call in flight
  original_resume,  \* the locals of process, Unset until assigned
  job_analysis,
  skill_matches,
  tailored_resume,
  verification,
  change_report,
  calls,            \* the stages invoked so far, in order
  inference_calls,  \* number of _call_claude calls made
  raised,           \* the stage whose exception process caught, or "none"
  result,           \* the ProcessingResult returned, Unset until the return
  delivered,        \* the responses this invocation's calls received, in order
  run,              \* the invocation of process that is running
  other,            \* a second invocation while it is not running, or NoRun
  session_state,    \* st.session_state of the browser session
  script            \* the script run of the page: at rest, or a rerun pending

vars ==
  <<pc, on_progress, progress, response, original_resume, job_analysis,
    skill_matches, tailored_resume, verification, change_report, calls,
    inference_calls, raised, result, delivered, run, other, session_state,
    script>>

Unset == [set |-> FALSE]
Set(x) == [set |-> TRUE, val |-> x]

NoResponse == [k |-> "none"]

NoRun == [pc |-> "none"]

\* Outside the page: no browser session, no script run.
NoSession == [step |-> 0]
NoScript == [status |-> "none"]

\* the arguments of the running invocation of process
resume_text == IF run = 1 THEN "resume text" ELSE "second resume text"
job_text == IF run = 1 THEN "job text" ELSE "second job text"

\* the responses of the generation step in a run of the whole pipeline
ParsedAcmeData ==
  [company |-> "Acme Corp", title |-> "Engineer", start_date |-> "2020-01",
   end_date |-> "2022-01", location |-> Null,
   bullets |-> ListKey(<<"Built X", "Led Y">>),
   original_text |-> "Acme Corp raw"]

ParseResponses ==
  {ParseDataWith(Absent, ContactData("Jane Doe"), AbsentKey),
   ParseDataWith("altered", AbsentContact, ListKey(<<ParsedAcmeData>>)),
   ParseDataWith(Absent, ContactData(Null), AbsentKey)}

AnalyzeResponses ==
  {AnalyzeDataWith(Absent, "Developer",
                   RequirementsData(ListKey(<<"Python", "Kubernetes">>),
                                    ListKey(<<"cloud">>))),
   AnalyzeDataWith(Absent, Null, AbsentRequirements)}

MatchResponses ==
  {MatchDataWith(ListKey(<<SkillData("Python", "strong",
                                     ListKey(<<"Python">>), "Lead with it")>>),
                 ListKey(<<SkillData("Kubernetes", Absent, AbsentKey, "")>>),
                 AbsentKey, sc) :
     sc \in {Number(50), Number(90), Number(150), NullNumber}}

PipelineChanges ==
  ListKey(<<Change("summary"), Change("experience"), Change("experience")>>)

TailorResponses ==
  {TailorDataWith(e, "New summary", AbsentKey, c) :
     e \in {AbsentKey, ListKey(<<GenForged>>), ListKey(<<GenEmpty, GenForged>>),
            ListKey(<<GenNullBullets>>)},
     c \in {AbsentKey, PipelineChanges}}

VerifyResponses ==
  {VerifyDataWith(st, i, ListKey(<<"Check the wording">>)) :
     st \in {"approved", "flagged"},
     i \in {AbsentKey, NullKey,
            ListKey(<<IssueData("Experience 1", "critical")>>),
            ListKey(<<IssueData("Summary", "warning")>>)}}

\* an update_progress that keeps the report milestone from the sink
UpdateProgress_skips_report(message, pct) ==
  progress' = IF on_progress # "none" /\ pct # 90
              THEN Append(progress, <<message, pct>>) ELSE progress

\* update_progress: the sink, when supplied, receives the milestone
UpdateProgress(message, pct) ==
  progress' = IF on_progress # "none"
              THEN Append(progress, <<message, pct>>) ELSE progress


\* a failure result that keeps the outputs of the stages that had returned
FailureResult_partial(stage) ==
  [success |-> FALSE, original_resume |-> original_resume,
   job_analysis |-> job_analysis, skill_matches |-> skill_matches,
   tailored_resume |-> tailored_resume, verification |-> verification,
   change_report |-> change_report, error |-> Set(<<stage, " failed">>)]

\* ProcessingResult(success=False, error=str(e))
FailureResult(stage) ==
  [success |-> FALSE, original_resume |-> Unset, job_analysis |-> Unset,
   skill_matches |-> Unset, tailored_resume |-> Unset, verification |-> Unset,
   change_report |-> Unset, error |-> Set(<<stage, " failed">>)]


\* an exception logged per stage, the pipeline carrying on with the next stage
Caught_carries_on(stage) ==
  /\ raised' = stage
  /\ result' = result
  /\ pc' = CASE stage = "parse" -> "analyze_notify"
             [] stage = "analyze" -> "match_notify"
             [] stage = "match" -> "tailor_notify"
             [] stage = "tailor" -> "verify_notify"
             [] OTHER -> "report_notify"

\* the except clause of process
Caught(stage) ==
  /\ raised' = stage
  /\ result' = Set(FailureResult(stage))
  /\ pc' = "done"


\* a stage that retries its inference call once
Invoke_retries(stage, responses) ==
  /\ calls' = calls \o <<stage, stage>>
  /\ inference_calls' = inference_calls + 2
  /\ response' \in responses
  /\ delivered' = Append(delivered, response')

\* a stage's agent is entered and makes its one inference call
Invoke(stage, responses) ==
  /\ calls' = Append(calls, stage)
  /\ inference_calls' = inference_calls + 1
  /\ response' \in responses
  /\ delivered' = Append(delivered, response')

Init ==
  /\ pc = "parse_notify"
  /\ on_progress \in {"none", "sink"}
  /\ progress = <<>>
  /\ response = NoResponse
  /\ original_resume = Unset
  /\ job_analysis = Unset
  /\ skill_matches = Unset
  /\ tailored_resume = Unset
  /\ verification = Unset
  /\ change_report = Unset
  /\ calls = <<>>
  /\ inference_calls = 0
  /\ raised = "none"
  /\ result = Unset
  /\ delivered = <<>>
  /\ run = 1
  /\ other = NoRun
  /\ session_state = NoSession
  /\ script = NoScript

\* Step 1: parse the resume
ParseNotify ==
  /\ pc = "parse_notify"
  /\ UpdateProgress("Parsing your resume...", 10)
  /\ pc' = "parse_call"
  /\ UNCHANGED <<session_state, script, delivered, run, other, on_progress, response, original_resume, job_analysis,
                 skill_matches, tailored_resume, verification, change_report,
                 calls, inference_calls, raised, result>>

ParseCall ==
  /\ pc = "parse_call"
  /\ Invoke("parse", ParseResponses)
  /\ pc' = "parse_wait"
  /\ UNCHANGED <<session_state, script, run, other, on_progress, progress, original_resume, job_analysis,
                 skill_matches, tailored_resume, verification, change_report,
                 raised, result>>

ParseReturn ==
  /\ pc = "parse_wait"
  /\ ~ParseRaises(response)
  /\ original_resume' = Set(parse(resume_text, response))
  /\ pc' = "analyze_notify"
  /\ UNCHANGED <<session_state, script, delivered, run, other, on_progress, progress, response, job_analysis, skill_matches,
                 tailored_resume, verification, change_report, calls,
                 inference_calls, raised, result>>

ParseRaise ==
  /\ pc = "parse_wait"
  /\ Caught("parse")
  /\ UNCHANGED <<session_state, script, delivered, run, other, on_progress, progress, response, original_resume,
                 job_analysis, skill_matches, tailored_resume, verification,
                 change_report, calls, inference_calls>>

\* Step 2: analyze the job posting
AnalyzeNotify ==
  /\ pc = "analyze_notify"
  /\ UpdateProgress("Analyzing job requirements...", 25)
  /\ pc' = "analyze_call"
  /\ UNCHANGED <<session_state, script, delivered, run, other, on_progress, response, original_resume, job_analysis,
                 skill_matches, tailored_resume, verification, change_report,
                 calls, inference_calls, raised, result>>

AnalyzeCall ==
  /\ pc = "analyze_call"
  /\ Invoke("analyze", AnalyzeResponses)
  /\ pc' = "analyze_wait"
  /\ UNCHANGED <<session_state, script, run, other, on_progress, progress, original_resume, job_analysis,
                 skill_matches, tailored_resume, verification, change_report,
                 raised, result>>

AnalyzeReturn ==
  /\ pc = "analyze_wait"
  /\ ~AnalyzeRaises(response)
  /\ job_analysis' = Set(analyze(job_text, response))
  /\ pc' = "match_notify"
  /\ UNCHANGED <<session_state, script, delivered, run, other, on_progress, progress, response, original_resume,
                 skill_matches, tailored_resume, verification, change_report,
                 calls, inference_calls, raised, result>>

AnalyzeRaise ==
  /\ pc = "analyze_wait"
  /\ Caught("analyze")
  /\ UNCHANGED <<session_state, script, delivered, run, other, on_progress, progress, response, original_resume,
                 job_analysis, skill_matches, tailored_resume, verification,
                 change_report, calls, inference_calls>>

\* Step 3: match skills
MatchNotify ==
  /\ pc = "match_notify"
  /\ UpdateProgress("Matching your skills to requirements...", 40)
  /\ pc' = "match_call"
  /\ UNCHANGED <<session_state, script, delivered, run, other, on_progress, response, original_resume, job_analysis,
                 skill_matches, tailored_resume, verification, change_report,
                 calls, inference_calls, raised, result>>

MatchCall ==
  /\ pc = "match_call"
  /\ Invoke("match", MatchResponses)
  /\ pc' = "match_wait"
  /\ UNCHANGED <<session_state, script, run, other, on_progress, progress, original_resume, job_analysis,
                 skill_matches, tailored_resume, verification, change_report,
                 raised, result>>

MatchReturn ==
  /\ pc = "match_wait"
  /\ ~MatchRaises(response)
  /\ skill_matches' =
       Set(match(original_resume.val, job_analysis.val, response))
  /\ pc' = "tailor_notify"
  /\ UNCHANGED <<session_state, script, delivered, run, other, on_progress, progress, response, original_resume,
                 job_analysis, tailored_resume, verification, change_report,
                 calls, inference_calls, raised, result>>

MatchRaise ==
  /\ pc = "match_wait"
  /\ Caught("match")
  /\ UNCHANGED <<session_state, script, delivered, run, other, on_progress, progress, response, original_resume,
                 job_analysis, skill_matches, tailored_resume, verification,
                 change_report, calls, inference_calls>>

\* Step 4: tailor the resume
TailorNotify ==
  /\ pc = "tailor_notify"
  /\ UpdateProgress("Tailoring your resume...", 60)
  /\ pc' = "tailor_call"
  /\ UNCHANGED <<session_state, script, delivered, run, other, on_progress, response, original_resume, job_analysis,
                 skill_matches, tailored_resume, verification, change_report,
                 calls, inference_calls, raised, result>>

TailorCall ==
  /\ pc = "tailor_call"
  /\ Invoke("tailor", TailorResponses)
  /\ pc' = "tailor_wait"
  /\ UNCHANGED <<session_state, script, run, other, on_progress, progress, original_resume, job_analysis,
                 skill_matches, tailored_resume, verification, change_report,
                 raised, result>>

TailorReturn ==
  /\ pc = "tailor_wait"
  /\ ~TailorRaises(original_resume.val, response)
  /\ tailored_resume' = Set(tailor(original_resume.val, response))
  /\ pc' = "verify_notify"
  /\ UNCHANGED <<session_state, script, delivered, run, other, on_progress, progress, response, original_resume,
                 job_analysis, skill_matches, verification, change_report,
                 calls, inference_calls, raised, result>>

TailorRaise ==
  /\ pc = "tailor_wait"
  /\ Caught("tailor")
  /\ UNCHANGED <<session_state, script, delivered, run, other, on_progress, progress, response, original_resume,
                 job_analysis, skill_matches, tailored_resume, verification,
                 change_report, calls, inference_calls>>

\* Step 5: fact-check the result
VerifyNotify ==
  /\ pc = "verify_notify"
  /\ UpdateProgress("Verifying accuracy...", 80)
  /\ pc' = "verify_call"
  /\ UNCHANGED <<session_state, script, delivered, run, other, on_progress, response, original_resume, job_analysis,
                 skill_matches, tailored_resume, verification, change_report,
                 calls, inference_calls, raised, result>>

VerifyCall ==
  /\ pc = "verify_call"
  /\ Invoke("verify", VerifyResponses)
  /\ pc' = "verify_wait"
  /\ UNCHANGED <<session_state, script, run, other, on_progress, progress, original_resume, job_analysis,
                 skill_matches, tailored_resume, verification, change_report,
                 raised, result>>

VerifyReturn ==
  /\ pc = "verify_wait"
  /\ ~VerifyRaises(response)
  /\ verification' =
       Set(verify(original_resume.val, tailored_resume.val, response))
  /\ pc' = "report_notify"
  /\ UNCHANGED <<session_state, script, delivered, run, other, on_progress, progress, response, original_resume,
                 job_analysis, skill_matches, tailored_resume, change_report,
                 calls, inference_calls, raised, result>>

VerifyRaise ==
  /\ pc = "verify_wait"
  /\ Caught("verify")
  /\ UNCHANGED <<session_state, script, delivered, run, other, on_progress, progress, response, original_resume,
                 job_analysis, skill_matches, tailored_resume, verification,
                 change_report, calls, inference_calls>>

\* Step 6: generate the change report (no inference call)
ReportNotify ==
  /\ pc = "report_notify"
  /\ UpdateProgress("Generating report...", 90)
  /\ pc' = "report_call"
  /\ UNCHANGED <<session_state, script, delivered, run, other, on_progress, response, original_resume, job_analysis,
                 skill_matches, tailored_resume, verification, change_report,
                 calls, inference_calls, raised, result>>

Report ==
  /\ pc = "report_call"
  /\ calls' = Append(calls, "report")
  /\ change_report' =
       Set(generate_change_report(skill_matches.val, tailored_resume.val,
                                  verification.val))
  /\ pc' = "complete_notify"
  /\ UNCHANGED <<session_state, script, delivered, run, other, on_progress, progress, response, original_resume,
                 job_analysis, skill_matches, tailored_resume, verification,
                 inference_calls, raised, result>>

CompleteNotify ==
  /\ pc = "complete_notify"
  /\ UpdateProgress("Complete!", 100)
  /\ pc' = "return"
  /\ UNCHANGED <<session_state, script, delivered, run, other, on_progress, response, original_resume, job_analysis,
                 skill_matches, tailored_resume, verification, change_report,
                 calls, inference_calls, raised, result>>


\* a flagged verification reported as a failure
SuccessResult_unless_flagged ==
  [success |-> verification.val.status = "approved",
   original_resume |-> original_resume,
   job_analysis |-> job_analysis, skill_matches |-> skill_matches,
   tailored_resume |-> tailored_resume, verification |-> verification,
   change_report |-> change_report, error |-> Unset]

\* ProcessingResult(success=True, ...)
SuccessResult ==
  [success |-> TRUE, original_resume |-> original_resume,
   job_analysis |-> job_analysis, skill_matches |-> skill_matches,
   tailored_resume |-> tailored_resume, verification |-> verification,
   change_report |-> change_report, error |-> Unset]

Return ==
  /\ pc = "return"
  /\ result' = Set(SuccessResult)
  /\ pc' = "done"
  /\ UNCHANGED <<session_state, script, delivered, run, other, on_progress, progress, response, original_resume,
                 job_analysis, skill_matches, tailored_resume, verification,
                 change_report, calls, inference_calls, raised>>

Next ==
  \/ ParseNotify \/ ParseCall \/ ParseReturn \/ ParseRaise
  \/ AnalyzeNotify \/ AnalyzeCall \/ AnalyzeReturn \/ AnalyzeRaise
  \/ MatchNotify \/ MatchCall \/ MatchReturn \/ MatchRaise
  \/ TailorNotify \/ TailorCall \/ TailorReturn \/ TailorRaise
  \/ VerifyNotify \/ VerifyCall \/ VerifyReturn \/ VerifyRaise
  \/ ReportNotify \/ Report \/ CompleteNotify \/ Return

Spec == Init /\ [][Next]_vars

\* ------------------------------------------------------------------
\* The agents' post-processing on its own: process stands at the return of one
\* stage's inference call, with the outputs of the earlier stages in its
\* locals, and the response ranges over the objects the generation step can
\* return for that stage.

SomeJob == analyze(job_text, AnalyzeDataWith(Absent, "Developer",
             RequirementsData(ListKey(<<"Python", "Kubernetes">>), AbsentKey)))

ReturnedScores == (0 - ScoreMargin)..(100 + ScoreMargin)

SkillsFor(n) ==
  ListKey([i \in 1..n |->
             SkillData("Python", IF i = 1 THEN "strong" ELSE "missing",
                       ListKey(<<"Python">>), "Lead with it")])

MatchData ==
  {MatchDataWith(m, AbsentKey, AbsentKey, sc) :
     m \in {AbsentKey} \cup {SkillsFor(n) : n \in 0..MaxMatched},
     sc \in {AbsentNumber, NullNumber} \cup {Number(x) : x \in ReturnedScores}}

SomeMatch(score) ==
  match(NoResume, SomeJob, MatchDataWith(SkillsFor(1), AbsentKey, AbsentKey,
                                         Number(score)))

TailorData ==
  {TailorDataWith(e, "New summary", AbsentKey, AbsentKey) :
     e \in {AbsentKey, NullKey}
             \cup {ListKey(g) : g \in SeqsUpTo(GeneratedExperiences, MaxGenerated)}}

ChangesOfLength(n) ==
  ListKey([i \in 1..n |->
             Change(IF i % 3 = 1 THEN "experience"
                    ELSE IF i % 3 = 2 THEN "summary" ELSE "skills")])

SomeTailored(resume, n) ==
  tailor(resume, TailorDataWith(AbsentKey, Absent, AbsentKey, ChangesOfLength(n)))

VerifyData ==
  {VerifyDataWith(st, i, w) :
     st \in {"approved", "flagged", Absent},
     i \in {AbsentKey}
             \cup {ListKey(q) :
                     q \in SeqsUpTo({IssueData("Experience 1", sev) :
                                       sev \in ReturnedSeverities}, MaxIssues)},
     w \in {AbsentKey, ListKey(<<"Check the wording">>)}}

SomeVerification(severity) ==
  verify(NoResume, SomeTailored(NoResume, 0),
         VerifyDataWith("approved",
                        ListKey(<<IssueData("Experience 1", severity)>>),
                        AbsentKey))

\* process after the first n stages were invoked, no sink supplied; the
\* responses of the calls made before this point are not recorded
Reached(position, n) ==
  /\ pc = position
  /\ on_progress = "none"
  /\ progress = <<>>
  /\ calls = SubSeq(<<"parse", "analyze", "match", "tailor", "verify">>, 1, n)
  /\ inference_calls = n
  /\ raised = "none"
  /\ result = Unset
  /\ delivered = <<>>
  /\ run = 1
  /\ other = NoRun
  /\ session_state = NoSession
  /\ script = NoScript

InitMatch ==
  /\ Reached("match_wait", 3)
  /\ response \in MatchData
  /\ original_resume = Set(NoResume)
  /\ job_analysis = Set(SomeJob)
  /\ skill_matches = Unset
  /\ tailored_resume = Unset
  /\ verification = Unset
  /\ change_report = Unset

NextMatch == MatchReturn \/ MatchRaise

SpecMatch == InitMatch /\ [][NextMatch]_vars

InitTailor ==
  /\ Reached("tailor_wait", 4)
  /\ response \in TailorData
  /\ original_resume \in {Set(r) : r \in Resumes}
  /\ job_analysis = Set(SomeJob)
  /\ skill_matches = Set(SomeMatch(50))
  /\ tailored_resume = Unset
  /\ verification = Unset
  /\ change_report = Unset

NextTailor == TailorReturn \/ TailorRaise

SpecTailor == InitTailor /\ [][NextTailor]_vars

InitVerify ==
  /\ Reached("verify_wait", 5)
  /\ response \in VerifyData
  /\ original_resume = Set(NoResume)
  /\ job_analysis = Set(SomeJob)
  /\ skill_matches = Set(SomeMatch(50))
  /\ tailored_resume = Set(SomeTailored(NoResume, 0))
  /\ verification = Unset
  /\ change_report = Unset

NextVerify == VerifyReturn \/ VerifyRaise

SpecVerify == InitVerify /\ [][NextVerify]_vars

InitReport ==
  /\ Reached("report_call", 5)
  /\ response = NoResponse
  /\ original_resume = Set(NoResume)
  /\ job_analysis = Set(SomeJob)
  /\ skill_matches \in {Set(SomeMatch(x)) : x \in ReturnedScores}
  /\ tailored_resume \in {Set(SomeTailored(NoResume, n)) : n \in 0..MaxChanges}
  /\ verification \in {Set(SomeVerification(sev)) : sev \in {"critical", "warning"}}
  /\ change_report = Unset

NextReport == Report \/ CompleteNotify \/ Return

SpecReport == InitReport /\ [][NextReport]_vars

\* ------------------------------------------------------------------ claims
StageOrder == <<"parse", "analyze", "match", "tailor", "verify", "report">>

StageIndex(stage) == CHOOSE i \in 1..Len(StageOrder) : StageOrder[i] = stage

OutputOf(stage) ==
  CASE stage = "parse" -> original_resume
    [] stage = "analyze" -> job_analysis
    [] stage = "match" -> skill_matches
    [] stage = "tailor" -> tailored_resume
    [] stage = "verify" -> verification
    [] stage = "report" -> change_report

\* the fields of an experience entry that tailoring may not change
SameVerbatimFields(a, b) ==
  /\ a.company = b.company
  /\ a.title = b.title
  /\ a.start_date = b.start_date
  /\ a.end_date = b.end_date
  /\ a.location = b.location
  /\ a.original_text = b.original_text

\* number of experience entries in the generation step's response
ReturnedCount == Len(GetList(response.experiences, <<>>))

\* C1: for each experience entry at position i of the original resume, the
\* output of tailor has an experience at position i with the original's
\* company, title, start_date, end_date, location and original_text, whatever
\* the generation step returned for them.
C1_EveryOriginalPositionKept ==
  tailored_resume.set =>
    \A i \in 1..Len(original_resume.val.experiences) :
      /\ i <= Len(tailored_resume.val.experiences)
      /\ SameVerbatimFields(tailored_resume.val.experiences[i],
                            original_resume.val.experiences[i])

\* C2: when the generation step returns fewer experience entries than the
\* original has, the output of tailor still has one experience per original
\* entry and each entry beyond the returned count is the original entry.
C2_MissingEntriesFallBack ==
  (tailored_resume.set /\ pc = "verify_notify"
     /\ ReturnedCount < Len(original_resume.val.experiences)) =>
    /\ Len(tailored_resume.val.experiences)
         = Len(original_resume.val.experiences)
    /\ \A i \in (ReturnedCount + 1)..Len(original_resume.val.experiences) :
         tailored_resume.val.experiences[i]
           = original_resume.val.experiences[i]

\* C3: when the generation step returns more experience entries than the
\* original has, the extras are ignored: the output of tailor never has more
\* experiences than the original, and none whose company, title or dates come
\* from the generation step.
C3_ExtrasIgnored ==
  tailored_resume.set =>
    /\ Len(tailored_resume.val.experiences)
         <= Len(original_resume.val.experiences)
    /\ \A i \in 1..Len(tailored_resume.val.experiences) :
         \E j \in 1..Len(original_resume.val.experiences) :
           SameVerbatimFields(tailored_resume.val.experiences[i],
                              original_resume.val.experiences[j])

\* C4: the status verify returns is flagged if and only if some issue of the
\* returned report has severity "critical", and approved otherwise, whatever
\* status the generation step reported; a flagged report carries an issue.
C4_StatusFromIssues ==
  (verification.set /\ pc = "report_notify") =>
    LET report == verification.val
        critical == \E i \in 1..Len(report.issues) :
                      report.issues[i].severity = "critical"
    IN /\ report.status = "flagged" <=> critical
       /\ report.status = "approved" <=> ~critical
       /\ report.status = "flagged" => Len(report.issues) >= 1

\* C4 witness: the generation step said approved and verify flagged the report
C4_Witness ==
  /\ verification.set
  /\ pc = "report_notify"
  /\ response.status = "approved"
  /\ verification.val.status = "flagged"
  /\ Len(verification.val.issues) = MaxIssues

\* C5: when a stage raises, process returns a failure result with an error
\* description and no stage later in the order is invoked.
C5_FailFast ==
  raised # "none" =>
    /\ pc = "done"
    /\ result.set
    /\ result.val.success = FALSE
    /\ result.val.error.set
    /\ calls = SubSeq(StageOrder, 1, StageIndex(raised))

\* C5 witness: resume extraction raised and job extraction was never called
C5_Witness ==
  /\ raised = "parse"
  /\ result.set
  /\ calls = <<"parse">>

\* C6: a returned ProcessingResult is either a success with the six records
\* set and no error, or a failure with an error and none of the six records.
C6_CompleteOutcomes ==
  result.set =>
    LET r == result.val
    IN \/ /\ r.success = TRUE
          /\ r.original_resume.set /\ r.job_analysis.set /\ r.skill_matches.set
          /\ r.tailored_resume.set /\ r.verification.set /\ r.change_report.set
          /\ ~r.error.set
       \/ /\ r.success = FALSE
          /\ r.error.set
          /\ ~r.original_resume.set /\ ~r.job_analysis.set
          /\ ~r.skill_matches.set /\ ~r.tailored_resume.set
          /\ ~r.verification.set /\ ~r.change_report.set

\* C6 witness: verify raised after four stages had produced their outputs
C6_Witness ==
  /\ result.set
  /\ raised = "verify"
  /\ original_resume.set /\ job_analysis.set /\ skill_matches.set
  /\ tailored_resume.set
  /\ ~result.val.tailored_resume.set

\* C7: the stages are invoked in the fixed order, each at most once and only
\* after its predecessor returned; a successful run invokes each stage once
\* and makes exactly five inference calls.
C7_FixedOrder ==
  /\ Len(calls) <= Len(StageOrder)
  /\ calls = SubSeq(StageOrder, 1, Len(calls))
  /\ \A i \in 1..(Len(calls) - 1) : OutputOf(calls[i]).set
  /\ inference_calls = Cardinality({i \in 1..Len(calls) : calls[i] # "report"})
  /\ (result.set /\ result.val.success) =>
       (calls = StageOrder /\ inference_calls = 5)

\* C7 witness: a successful run
C7_Witness ==
  /\ pc = "done"
  /\ result.set
  /\ result.val.success
  /\ calls = StageOrder
  /\ inference_calls = 5

C9_ImprovedScore ==
  change_report.set =>
    LET original == skill_matches.val.match_score
        n == Len(tailored_resume.val.changes)
        boost == IF 2 * n <= 15 THEN 2 * n ELSE 15
        report == change_report.val
    IN /\ report.original_match_score = original
       /\ report.improved_match_score
            = (IF original + boost <= 100 THEN original + boost ELSE 100)
       /\ (original = 90 /\ n = 10) => report.improved_match_score = 100
       /\ (original = 50 /\ n = 3) => report.improved_match_score = 56

\* C9 witness: the report for a score of 90 and ten changes
C9_Witness ==
  /\ change_report.set
  /\ skill_matches.val.match_score = 90
  /\ Len(tailored_resume.val.changes) = 10
  /\ change_report.val.improved_match_score = 100

\* C10: the match_score of a SkillMatchResult produced by match lies in
\* [0, 100], whatever number the generation step returned.
C10_ScoreInRange ==
  skill_matches.set =>
    /\ skill_matches.val.match_score >= 0
    /\ skill_matches.val.match_score <= 100

\* ------------------------------------------------------------------
\* match over the three skill lists the generation step can return

ReturnedSkills ==
  {SkillData(name, sv[1], sv[2], "") :
     name \in {"Python", "Kubernetes"},
     sv \in {<<"strong", ListKey(<<"Used it daily">>)>>,
             <<"missing", AbsentKey>>,
             <<Absent, ListKey(<<"Used it daily">>)>>}}

SkillListData ==
  {MatchDataWith(ListKey(a), ListKey(b), ListKey(c), Number(50)) :
     a \in SeqsUpTo(ReturnedSkills, MaxSkills),
     b \in SeqsUpTo(ReturnedSkills, MaxSkills),
     c \in SeqsUpTo(ReturnedSkills, MaxSkills)}

InitSkills ==
  /\ Reached("match_wait", 3)
  /\ response \in SkillListData
  /\ original_resume = Set(NoResume)
  /\ job_analysis = Set(SomeJob)
  /\ skill_matches = Unset
  /\ tailored_resume = Unset
  /\ verification = Unset
  /\ change_report = Unset

NextSkills == MatchReturn \/ MatchRaise

SpecSkills == InitSkills /\ [][NextSkills]_vars

SkillNames(list) == {list[i].skill : i \in 1..Len(list)}

\* C11: every entry of missing_skills in a result of match has strength
\* MISSING and no resume evidence, whatever the generation step returned.
C11_MissingEntries ==
  skill_matches.set =>
    \A i \in 1..Len(skill_matches.val.missing_skills) :
      /\ skill_matches.val.missing_skills[i].strength = "missing"
      /\ skill_matches.val.missing_skills[i].resume_evidence = <<>>

\* C11 witness: a missing entry returned as strong with evidence
C11_Witness ==
  /\ skill_matches.set
  /\ Len(skill_matches.val.missing_skills) >= 1
  /\ response.missing_skills.v[1].strength = "strong"
  /\ response.missing_skills.v[1].resume_evidence.v # <<>>

\* C12: the matched, missing and transferable lists of a result of match are
\* pairwise disjoint: no skill name is in more than one of them.
C12_ListsDisjoint ==
  skill_matches.set =>
    LET matched == SkillNames(skill_matches.val.matched_skills)
        missing == SkillNames(skill_matches.val.missing_skills)
        transferable == SkillNames(skill_matches.val.transferable_skills)
    IN /\ matched \cap missing = {}
       /\ matched \cap transferable = {}
       /\ missing \cap transferable = {}

\* ------------------------------------------------------------------
\* tailor over resumes that differ in contact, education, projects and
\* certifications, and responses that carry those sections as well

EduMIT ==
  [institution |-> "MIT", degree |-> "BSc", field |-> None,
   graduation_date |-> "2019", gpa |-> None, honors |-> None]

EduForged ==
  [institution |-> "Harvard", degree |-> "PhD", field |-> None,
   graduation_date |-> "2021", gpa |-> "4.0", honors |-> None]

ProjForged ==
  [name |-> "Moonshot", description |-> "Invented", technologies |-> <<>>,
   url |-> None]

SectionResumes ==
  {[ResumeWith(<<ExpAcme>>) EXCEPT !.contact.email = em, !.education = ed,
                                   !.projects = pr, !.certifications = ce] :
     em \in {None, "jane@example.org"},
     ed \in {<<>>, <<EduMIT>>, <<EduMIT, EduMIT>>},
     pr \in {<<>>, ResumeWith(<<>>).projects},
     ce \in {<<>>, <<"AWS">>}}

\* keys tailor does not ask for, which the generation step may return anyway
SectionData ==
  {TailorDataWith(e, "New summary", AbsentKey, AbsentKey)
     @@ [education |-> ed, projects |-> pr, certifications |-> ce] :
     e \in {AbsentKey, ListKey(<<GenForged>>)},
     ed \in {AbsentKey, ListKey(<<EduForged>>)},
     pr \in {AbsentKey, ListKey(<<ProjForged>>)},
     ce \in {AbsentKey, ListKey(<<"PMP">>)}}

InitSections ==
  /\ Reached("tailor_wait", 4)
  /\ response \in SectionData
  /\ original_resume \in {Set(r) : r \in SectionResumes}
  /\ job_analysis = Set(SomeJob)
  /\ skill_matches = Set(SomeMatch(50))
  /\ tailored_resume = Unset
  /\ verification = Unset
  /\ change_report = Unset

NextSections == TailorReturn \/ TailorRaise

SpecSections == InitSections /\ [][NextSections]_vars

\* C13: the contact, education, projects and certifications of the output of
\* tailor equal those of the original resume, for every resume and response.
C13_SectionsVerbatim ==
  tailored_resume.set =>
    /\ tailored_resume.val.contact = original_resume.val.contact
    /\ tailored_resume.val.education = original_resume.val.education
    /\ tailored_resume.val.projects = original_resume.val.projects
    /\ tailored_resume.val.certifications = original_resume.val.certifications

\* C13 witness: the response carried its own education, projects and
\* certifications and the output has the original's
C13_Witness ==
  /\ tailored_resume.set
  /\ response.education.k = "val"
  /\ response.projects.k = "val"
  /\ response.certifications.k = "val"
  /\ Len(tailored_resume.val.education) = 2
  /\ tailored_resume.val.certifications = <<"AWS">>

\* ------------------------------------------------------------------
\* the two extractors over responses with missing, null and altered fields

ExpOptionalNull ==
  [company |-> "Acme Corp", title |-> "Engineer", start_date |-> "2020-01",
   end_date |-> Null, location |-> Null, bullets |-> AbsentKey,
   original_text |-> Absent]

EduOptionalNull ==
  [institution |-> "MIT", degree |-> Absent, field |-> Null,
   graduation_date |-> Absent, gpa |-> Null, honors |-> Absent]

ContactOptionalNull ==
  [ContactData("Jane Doe") EXCEPT !.email = Null, !.phone = Null]

ReturnedRawTexts == {Absent, Null, "", "altered text"}

ParseData ==
  {[ParseDataWith(rt, c, e) EXCEPT !.summary = su, !.skills = sk,
                                   !.education = ed] :
     rt \in ReturnedRawTexts,
     c \in {ContactData("Jane Doe"), AbsentContact, ContactOptionalNull},
     e \in {AbsentKey, NullKey, ListKey(<<ParsedAcmeData>>),
            ListKey(<<GenEmpty>>), ListKey(<<ExpOptionalNull>>)},
     su \in {Absent, Null},
     sk \in {AbsentKey, NullKey, ListKey(<<"Python">>)},
     ed \in {AbsentKey, ListKey(<<EduOptionalNull>>)}}

NullRequirements == [AbsentRequirements EXCEPT !.k = "null"]

AnalyzeData ==
  {[AnalyzeDataWith(rt, t, rq) EXCEPT !.company = co, !.benefits = be] :
     rt \in ReturnedRawTexts,
     t \in {"Developer", Absent},
     rq \in {AbsentRequirements, NullRequirements,
             RequirementsData(ListKey(<<"Python">>), AbsentKey),
             RequirementsData(AbsentKey, NullKey),
             [RequirementsData(AbsentKey, AbsentKey)
                EXCEPT !.experience_years = NullNumber,
                       !.experience_description = Null]},
     co \in {Absent, Null},
     be \in {AbsentKey, NullKey}}

InitExtractors ==
  /\ tailored_resume = Unset
  /\ verification = Unset
  /\ change_report = Unset
  /\ skill_matches = Unset
  /\ \/ /\ Reached("parse_wait", 1)
        /\ response \in ParseData
        /\ original_resume = Unset
        /\ job_analysis = Unset
     \/ /\ Reached("analyze_wait", 2)
        /\ response \in AnalyzeData
        /\ original_resume = Set(NoResume)
        /\ job_analysis = Unset

NextExtractors == ParseReturn \/ ParseRaise \/ AnalyzeReturn \/ AnalyzeRaise

SpecExtractors == InitExtractors /\ [][NextExtractors]_vars

\* C16: the raw_text of the record an extractor returns is the input text it
\* was given, whether the response omits raw_text, has it empty or differs.
C16_RawTextPreserved ==
  /\ (original_resume.set /\ pc = "analyze_notify") =>
       original_resume.val.raw_text = resume_text
  /\ job_analysis.set => job_analysis.val.raw_text = job_text

\* the fields of parse's response that are required strings
ParseRequiredNull(data) ==
  \/ data.contact.name = Null
  \/ \E i \in 1..Len(data.experiences.v) :
        \/ data.experiences.v[i].company = Null
        \/ data.experiences.v[i].title = Null
        \/ data.experiences.v[i].start_date = Null
        \/ data.experiences.v[i].original_text = Null
  \/ \E i \in 1..Len(data.education.v) :
        \/ data.education.v[i].institution = Null
        \/ data.education.v[i].degree = Null

AnalyzeRequiredNull(data) == data.title = Null \/ data.description = Null

\* C17: a response in which only optional fields are missing (key absent or
\* value null) never makes an extractor fail.
C17_MissingOptionalTolerated ==
  /\ (pc = "parse_wait" /\ ~ParseRequiredNull(response)) =>
       ~ParseRaises(response)
  /\ (pc = "analyze_wait" /\ ~AnalyzeRequiredNull(response)) =>
       ~AnalyzeRaises(response)

\* ------------------------------------------------------------------
\* progress notifications

\* the fractions of lines 79-115, in percent
Milestones == <<10, 25, 40, 60, 80, 90, 100>>

Percents == [i \in 1..Len(progress) |-> progress[i][2]]

\* C19: the sink receives the milestones 0.1, 0.25, 0.4, 0.6, 0.8, 0.9, 1.0
\* in that order, the i-th before the i-th stage is invoked, and all seven
\* on a successful run.
C19_MilestonesInOrder ==
  on_progress = "sink" =>
    /\ Len(progress) <= Len(Milestones)
    /\ \A i \in 1..Len(progress) : Percents[i] = Milestones[i]
    /\ Len(calls) <= Len(progress)
    /\ \A i \in 1..Len(calls) : calls[i] = StageOrder[i]
    /\ (result.set /\ result.val.success) => Percents = Milestones

C19_Witness ==
  /\ on_progress = "sink"
  /\ pc = "done"
  /\ result.val.success
  /\ Len(progress) = 7
  /\ calls = StageOrder

\* ------------------------------------------------------------------
\* a sink that may raise when it is called

NotifyPositions ==
  <<"parse_notify", "analyze_notify", "match_notify", "tailor_notify",
    "verify_notify", "report_notify", "complete_notify">>

InitSink ==
  /\ pc = "parse_notify"
  /\ on_progress \in {"none", "sink", "raising"}
  /\ progress = <<>>
  /\ response = NoResponse
  /\ original_resume = Unset
  /\ job_analysis = Unset
  /\ skill_matches = Unset
  /\ tailored_resume = Unset
  /\ verification = Unset
  /\ change_report = Unset
  /\ calls = <<>>
  /\ inference_calls = 0
  /\ raised = "none"
  /\ result = Unset
  /\ delivered = <<>>
  /\ run = 1
  /\ other = NoRun
  /\ session_state = NoSession
  /\ script = NoScript

\* on_progress(message, pct) raises inside update_progress, which runs in
\* the try block of process
SinkRaise ==
  /\ on_progress = "raising"
  /\ \E i \in 1..Len(NotifyPositions) :
        /\ pc = NotifyPositions[i]
        /\ progress' = Append(progress, <<"raised", Milestones[i]>>)
  /\ Caught("progress")
  /\ UNCHANGED <<session_state, script, delivered, run, other, on_progress, response,
                 original_resume, job_analysis, skill_matches,
                 tailored_resume, verification, change_report, calls,
                 inference_calls>>

NextSink == Next \/ SinkRaise

SpecSink == InitSink /\ [][NextSink]_vars

\* C18: whatever sink is supplied and whatever it does, process invokes the
\* stages and returns the result it returns without a sink: a failure only
\* when the stage invoked last raised, a success after all six stages.
C18_SinkObservational ==
  pc = "done" =>
    /\ result.val.success => calls = StageOrder
    /\ ~result.val.success =>
         /\ Len(calls) > 0
         /\ raised = calls[Len(calls)]

\* ------------------------------------------------------------------
\* _extract_json_from_response, on texts that are sequences of characters
\* (a word that holds no JSON punctuation is one character)

MaxProse == 2

Quote == "\""

Whitespace == {" ", "\n"}

Digits == {"1"}

\* the markdown fence; the backquote is written '
Fence == <<"'", "'", "'">>

JsonFence == Fence \o <<"j", "s", "o", "n">>

MinOf(S) == CHOOSE x \in S : \A y \in S : x <= y

MaxOf(S) == CHOOSE x \in S : \A y \in S : x >= y

\* str.strip()
Strip(text) ==
  LET kept == {i \in 1..Len(text) : text[i] \notin Whitespace}
  IN IF kept = {} THEN <<>> ELSE SubSeq(text, MinOf(kept), MaxOf(kept))

\* str.find(pattern, start): the first position at or after start, 0 when
\* there is none (positions are 1-based here, 0-based with -1 in the code)
Find(text, pattern, start) ==
  LET hits == {i \in start..(Len(text) - Len(pattern) + 1) :
                 SubSeq(text, i, i + Len(pattern) - 1) = pattern}
  IN IF hits = {} THEN 0 ELSE MinOf(hits)

\* str.rfind(pattern)
RFind(text, pattern) ==
  LET hits == {i \in 1..(Len(text) - Len(pattern) + 1) :
                 SubSeq(text, i, i + Len(pattern) - 1) = pattern}
  IN IF hits = {} THEN 0 ELSE MaxOf(hits)

\* text[start:end] where end is the result of find: a find of -1 makes the
\* slice stop before the last character
SliceTo(text, start, end) ==
  LET last == IF end = 0 THEN Len(text) - 1 ELSE end - 1
  IN IF start > last THEN <<>> ELSE SubSeq(text, start, last)

\* lines 114-121: the text inside the first fence, a json-tagged one first
StripFence(text) ==
  IF Find(text, JsonFence, 1) # 0
  THEN LET start == Find(text, JsonFence, 1) + 7
       IN Strip(SliceTo(text, start, Find(text, Fence, start)))
  ELSE IF Find(text, Fence, 1) # 0
  THEN LET start == Find(text, Fence, 1) + 3
       IN Strip(SliceTo(text, start, Find(text, Fence, start)))
  ELSE text

\* lines 130-133: whether the text has a '{' with a '}' after it
HasBrackets(text) ==
  /\ Find(text, <<"{">>, 1) # 0
  /\ RFind(text, <<"}">>) >= Find(text, <<"{">>, 1)

BracketSlice(text) ==
  SubSeq(text, Find(text, <<"{">>, 1), RFind(text, <<"}">>))

\* where the whitespace that starts at position i ends
SkipWs(text, i) ==
  LET rest == {j \in i..Len(text) : text[j] \notin Whitespace}
  IN IF rest = {} THEN Len(text) + 1 ELSE MinOf(rest)

\* re.sub(r',(\s*[}\]])', r'\1', text): every comma that is followed, after
\* optional whitespace, by a closing bracket or brace is removed
FixCommas(text) ==
  LET dropped == {i \in 1..Len(text) :
                    /\ text[i] = ","
                    /\ SkipWs(text, i + 1) <= Len(text)
                    /\ text[SkipWs(text, i + 1)] \in {"}", "]"}}
      F[i \in 0..Len(text)] ==
        IF i = 0 THEN <<>>
        ELSE IF i \in dropped THEN F[i - 1] ELSE Append(F[i - 1], text[i])
  IN F[Len(text)]

\* json.loads: a parse yields the value without insignificant whitespace
ParseFail == [ok |-> FALSE, next |-> 0, out |-> <<>>]

ParseOk(next, out) == [ok |-> TRUE, next |-> next, out |-> out]

ParseString(text, i) ==
  LET close == {j \in (i + 1)..Len(text) : text[j] = Quote}
  IN IF close = {} THEN ParseFail
     ELSE IF \E j \in i..MinOf(close) : text[j] = "\n" THEN ParseFail
     ELSE ParseOk(MinOf(close) + 1, SubSeq(text, i, MinOf(close)))

ParseNumber(text, i) ==
  LET end == MinOf({j \in i..(Len(text) + 1) :
                      j > Len(text) \/ text[j] \notin Digits})
  IN ParseOk(end, SubSeq(text, i, end - 1))

RECURSIVE ParseValue(_, _), ParseMembers(_, _, _), ParseElements(_, _, _)

ParseValue(text, i) ==
  IF i > Len(text) THEN ParseFail
  ELSE IF text[i] = "{"
  THEN LET j == SkipWs(text, i + 1)
       IN IF j <= Len(text) /\ text[j] = "}"
          THEN ParseOk(j + 1, <<"{", "}">>)
          ELSE ParseMembers(text, j, <<"{">>)
  ELSE IF text[i] = "["
  THEN LET j == SkipWs(text, i + 1)
       IN IF j <= Len(text) /\ text[j] = "]"
          THEN ParseOk(j + 1, <<"[", "]">>)
          ELSE ParseElements(text, j, <<"[">>)
  ELSE IF text[i] = Quote THEN ParseString(text, i)
  ELSE IF text[i] \in Digits THEN ParseNumber(text, i)
  ELSE IF text[i] = "null" THEN ParseOk(i + 1, <<"null">>)
  ELSE ParseFail

\* a member is expected at position i; acc is the object so far
ParseMembers(text, i, acc) ==
  IF i > Len(text) \/ text[i] # Quote THEN ParseFail
  ELSE LET key == ParseString(text, i)
           colon == SkipWs(text, key.next)
       IN IF ~key.ok \/ colon > Len(text) \/ text[colon] # ":"
          THEN ParseFail
          ELSE LET value == ParseValue(text, SkipWs(text, colon + 1))
                   after == SkipWs(text, value.next)
                   out == acc \o key.out \o <<":">> \o value.out
               IN IF ~value.ok \/ after > Len(text) THEN ParseFail
                  ELSE IF text[after] = ","
                  THEN ParseMembers(text, SkipWs(text, after + 1),
                                    Append(out, ","))
                  ELSE IF text[after] = "}"
                  THEN ParseOk(after + 1, Append(out, "}"))
                  ELSE ParseFail

\* an element is expected at position i; acc is the array so far
ParseElements(text, i, acc) ==
  LET value == ParseValue(text, i)
      after == SkipWs(text, value.next)
      out == acc \o value.out
  IN IF ~value.ok \/ after > Len(text) THEN ParseFail
     ELSE IF text[after] = ","
     THEN ParseElements(text, SkipWs(text, after + 1), Append(out, ","))
     ELSE IF text[after] = "]" THEN ParseOk(after + 1, Append(out, "]"))
     ELSE ParseFail

Loads(text) ==
  LET parsed == ParseValue(text, SkipWs(text, 1))
  IN IF parsed.ok /\ SkipWs(text, parsed.next) > Len(text)
     THEN [ok |-> TRUE, out |-> parsed.out]
     ELSE [ok |-> FALSE, out |-> <<>>]

\* the whole of _extract_json_from_response: the value it returns, or ~ok
\* when it raises JSONDecodeError
ExtractJson(raw) ==
  LET stripped == StripFence(Strip(raw))
      text == IF HasBrackets(stripped) THEN BracketSlice(stripped)
              ELSE stripped
  IN IF Loads(stripped).ok THEN Loads(stripped)
     ELSE IF HasBrackets(stripped) /\ Loads(text).ok THEN Loads(text)
     ELSE Loads(FixCommas(text))

\* JSON objects, written without insignificant whitespace
Key(name) == <<Quote, name, Quote>>

ObjEmpty == <<"{", "}">>

ObjNumber == <<"{">> \o Key("a") \o <<":", "1", "}">>

ObjArray == <<"{">> \o Key("a") \o <<":", "[", "1", ",", "1", "]", "}">>

ObjNested ==
  <<"{">> \o Key("a") \o <<":", "{">> \o Key("b") \o <<":", "1", "}", "}">>

ObjBraceText == <<"{">> \o Key("a") \o <<":">> \o Key("}") \o <<"}">>

ObjFenceText ==
  <<"{">> \o Key("a") \o <<":", Quote>> \o Fence \o <<Quote, "}">>

ObjCommaText ==
  <<"{">> \o Key("a") \o <<":", Quote, "a", ",", "}", Quote, "}">>

JsonObjects ==
  {ObjEmpty, ObjNumber, ObjArray, ObjNested, ObjBraceText, ObjFenceText,
   ObjCommaText}

\* the shapes a response presents an object in
Prose(n) == [i \in 1..(2 * n - 1) |-> IF i % 2 = 1 THEN "a" ELSE " "]

Padded(obj) == <<" ">> \o obj \o <<"\n">>

JsonFenced(obj) == JsonFence \o <<"\n">> \o obj \o <<"\n">> \o Fence

Fenced(obj) == Fence \o <<"\n">> \o obj \o <<"\n">> \o Fence

InProse(obj, n) == Prose(n) \o <<" ">> \o obj \o <<" ">> \o Prose(n)

FencedInProse(obj, n) ==
  Prose(n) \o <<"\n">> \o JsonFenced(obj) \o <<"\n">> \o Prose(n)

\* the object with a comma put before one of its closing brackets or braces
TrailingCommas(obj) ==
  {SubSeq(obj, 1, i - 1) \o <<",">> \o SubSeq(obj, i, Len(obj)) :
     i \in {j \in 2..Len(obj) :
              /\ obj[j] \in {"}", "]"}
              /\ obj[j - 1] \notin {"{", "["}
              /\ Cardinality({q \in 1..(j - 1) : obj[q] = Quote}) % 2 = 0}}

Presented(shape, obj, text) ==
  [stage |-> "none", object |-> obj, shape |-> shape, raw |-> text,
   text |-> text, attempts |-> <<>>]

Presentations(obj) ==
  {Presented("bare", obj, obj), Presented("bare", obj, Padded(obj)),
   Presented("json fence", obj, JsonFenced(obj)),
   Presented("fence", obj, Fenced(obj))}
  \cup {Presented("prose", obj, InProse(obj, n)) : n \in 1..MaxProse}
  \cup {Presented("json fence", obj, FencedInProse(obj, n)) :
          n \in 1..MaxProse}
  \cup {Presented("trailing comma", obj, text) : text \in TrailingCommas(obj)}

\* responses of the tailor stage
ObjSummary ==
  <<"{">> \o Key("summary") \o <<":">> \o Key("Tailored summary") \o <<"}">>

ObjNullExperiences == <<"{">> \o Key("experiences") \o <<":", "null", "}">>

TailorObjects == {ObjEmpty, ObjNumber, ObjSummary, ObjNullExperiences}

\* the dict json.loads builds for the objects of TailorObjects, as tailor
\* reads it: keys it does not read are dropped
DecodeTailor(out) ==
  IF out = ObjSummary
  THEN TailorDataWith(AbsentKey, "Tailored summary", AbsentKey, AbsentKey)
  ELSE IF out = ObjNullExperiences
  THEN TailorDataWith(NullKey, Absent, AbsentKey, AbsentKey)
  ELSE TailorDataWith(AbsentKey, Absent, AbsentKey, AbsentKey)

\* the function returns out: to tailor, which reads it with data.get and
\* so raises on a value that is not an object, or to a caller outside the
\* pipeline
ExtractReturns(r, out) ==
  IF r.stage = "tailor"
  THEN IF out[1] = "{"
       THEN /\ response' = DecodeTailor(out)
            /\ pc' = "tailor_wait"
            /\ UNCHANGED <<raised, result>>
       ELSE /\ response' = r
            /\ Caught("tailor")
  ELSE /\ response' = r
       /\ result' = Set(out)
       /\ raised' = raised
       /\ pc' = "extract_done"

\* a parse failure answered with the empty object
ExtractRaises_empty_object(r) == ExtractReturns(r, ObjEmpty)

\* the function raises JSONDecodeError, which tailor does not catch
ExtractRaises(r) ==
  IF r.stage = "tailor"
  THEN /\ response' = r
       /\ Caught("tailor")
  ELSE /\ response' = r
       /\ result' = result
       /\ raised' = "extract"
       /\ pc' = "extract_done"

ExtractContinues(r, position) ==
  /\ response' = r
  /\ pc' = position
  /\ UNCHANGED <<raised, result>>

\* lines 111-121
ExtractStrip ==
  /\ pc = "extract_strip"
  /\ ExtractContinues(
       [response EXCEPT !.text = StripFence(Strip(response.raw))],
       "extract_as_is")
  /\ UNCHANGED <<session_state, script, on_progress, progress, original_resume, job_analysis,
                 skill_matches, tailored_resume, verification, change_report,
                 calls, inference_calls, delivered, run, other>>

\* lines 123-127
ExtractAsIs ==
  /\ pc = "extract_as_is"
  /\ LET r == [response EXCEPT
                 !.attempts = Append(@, <<"as_is", response.text>>)]
     IN IF Loads(response.text).ok
        THEN ExtractReturns(r, Loads(response.text).out)
        ELSE ExtractContinues(r, "extract_brackets")
  /\ UNCHANGED <<session_state, script, on_progress, progress, original_resume, job_analysis,
                 skill_matches, tailored_resume, verification, change_report,
                 calls, inference_calls, delivered, run, other>>

\* lines 129-137
ExtractBrackets ==
  /\ pc = "extract_brackets"
  /\ IF HasBrackets(response.text)
     THEN LET text == BracketSlice(response.text)
              r == [response EXCEPT
                      !.text = text,
                      !.attempts = Append(@, <<"brackets", text>>)]
          IN IF Loads(text).ok THEN ExtractReturns(r, Loads(text).out)
             ELSE ExtractContinues(r, "extract_fix")
     ELSE ExtractContinues(response, "extract_fix")
  /\ UNCHANGED <<session_state, script, on_progress, progress, original_resume, job_analysis,
                 skill_matches, tailored_resume, verification, change_report,
                 calls, inference_calls, delivered, run, other>>

\* lines 139-149
ExtractFix ==
  /\ pc = "extract_fix"
  /\ LET fixed == FixCommas(response.text)
         r == [response EXCEPT
                 !.attempts = Append(@, <<"fix_commas", fixed>>)]
     IN IF Loads(fixed).ok THEN ExtractReturns(r, Loads(fixed).out)
        ELSE ExtractRaises(r)
  /\ UNCHANGED <<session_state, script, on_progress, progress, original_resume, job_analysis,
                 skill_matches, tailored_resume, verification, change_report,
                 calls, inference_calls, delivered, run, other>>

InitExtract ==
  /\ pc = "extract_strip"
  /\ response \in UNION {Presentations(obj) : obj \in JsonObjects}
  /\ on_progress = "none"
  /\ progress = <<>>
  /\ original_resume = Unset
  /\ job_analysis = Unset
  /\ skill_matches = Unset
  /\ tailored_resume = Unset
  /\ verification = Unset
  /\ change_report = Unset
  /\ calls = <<>>
  /\ inference_calls = 0
  /\ raised = "none"
  /\ result = Unset
  /\ delivered = <<response.raw>>
  /\ run = 1
  /\ other = NoRun
  /\ session_state = NoSession
  /\ script = NoScript

NextExtract == ExtractStrip \/ ExtractAsIs \/ ExtractBrackets \/ ExtractFix

SpecExtract == InitExtract /\ [][NextExtract]_vars

\* the parses are tried in the order as-is, brackets, fixed commas, each
\* only after the parses before it failed
ExtractStepOrder ==
  LET attempts == response.attempts
      steps == [i \in 1..Len(attempts) |-> attempts[i][1]]
  IN /\ steps \in {<<>>, <<"as_is">>, <<"as_is", "brackets">>,
                   <<"as_is", "fix_commas">>,
                   <<"as_is", "brackets", "fix_commas">>}
     /\ \A i \in 1..(Len(attempts) - 1) : ~Loads(attempts[i][2]).ok
     /\ result.set => result.val = Loads(attempts[Len(attempts)][2]).out

\* C14: for a valid JSON object in each tolerated shape the extraction
\* returns that object, trying its steps in order and a later step only
\* when the earlier parse failed.
C14_SameObjectInEachShape ==
  /\ ExtractStepOrder
  /\ pc = "extract_done" => (result.set /\ result.val = response.object)

\* ------------------------------------------------------------------
\* the tailor stage from the text of its response to the end of process

\* texts that hold no JSON value: a refusal, a response cut off, an
\* unclosed fence, and one that holds a JSON value that is no object
Unparseable ==
  {Prose(MaxProse), SubSeq(ObjSummary, 1, Len(ObjSummary) - 1),
   JsonFence \o <<"\n">> \o ObjSummary, <<"[", "1", "]">>}

TailorTexts ==
  {[p EXCEPT !.stage = "tailor"] :
     p \in UNION {Presentations(obj) : obj \in TailorObjects}
           \cup {Presented("none", <<>>, text) : text \in Unparseable}}

InitTailorText ==
  /\ pc = "extract_strip"
  /\ run = 1
  /\ response \in TailorTexts
  /\ on_progress = "none"
  /\ progress = <<>>
  /\ original_resume \in {Set(r) : r \in Resumes}
  /\ job_analysis = Set(SomeJob)
  /\ skill_matches = Set(SomeMatch(50))
  /\ tailored_resume = Unset
  /\ verification = Unset
  /\ change_report = Unset
  /\ calls = <<"parse", "analyze", "match", "tailor">>
  /\ inference_calls = 4
  /\ raised = "none"
  /\ result = Unset
  /\ delivered = <<response.raw>>
  /\ other = NoRun
  /\ session_state = NoSession
  /\ script = NoScript

NextTailorText ==
  \/ ExtractStrip \/ ExtractAsIs \/ ExtractBrackets \/ ExtractFix
  \/ TailorReturn \/ TailorRaise
  \/ VerifyNotify \/ VerifyCall \/ VerifyReturn \/ VerifyRaise
  \/ ReportNotify \/ Report \/ CompleteNotify \/ Return

SpecTailorText == InitTailorText /\ [][NextTailorText]_vars

\* the response text yields an object that tailor builds a resume from
TailorUsable(raw, resume) ==
  /\ ExtractJson(raw).ok
  /\ ExtractJson(raw).out[1] = "{"
  /\ ~TailorRaises(resume, DecodeTailor(ExtractJson(raw).out))

\* C15: when the response of the tailor stage cannot be parsed or coerced,
\* tailor raises and process returns a failure; no tailored resume, and no
\* successful result, comes from such a response.
C15_UnparseableFails ==
  ~TailorUsable(delivered[1], original_resume.val) =>
     /\ ~tailored_resume.set
     /\ pc = "done" => (~result.val.success /\ raised = "tailor")

C15_Witness ==
  /\ pc = "done"
  /\ ~ExtractJson(delivered[1]).ok
  /\ raised = "tailor"
  /\ ~result.val.success

\* ------------------------------------------------------------------
\* two invocations of process, interleaved

\* everything an invocation holds: its arguments and the locals of process
Context ==
  [pc |-> pc, on_progress |-> on_progress, progress |-> progress,
   response |-> response, original_resume |-> original_resume,
   job_analysis |-> job_analysis, skill_matches |-> skill_matches,
   tailored_resume |-> tailored_resume, verification |-> verification,
   change_report |-> change_report, calls |-> calls,
   inference_calls |-> inference_calls, raised |-> raised,
   result |-> result, delivered |-> delivered, run |-> run]

WaitPositions ==
  {"parse_wait", "analyze_wait", "match_wait", "tailor_wait", "verify_wait"}

\* where the running invocation may be suspended: at a stage boundary,
\* during an inference call, and when it has returned
SwitchPoints ==
  {NotifyPositions[i] : i \in 1..Len(NotifyPositions)} \cup WaitPositions
  \cup {"done"}

\* a switch that leaves the response of the last inference call in place,
\* as if the agents kept it in an attribute
Switch_shares_response ==
  /\ other.pc # "none"
  /\ pc \in SwitchPoints
  /\ other' = Context
  /\ pc' = other.pc
  /\ on_progress' = other.on_progress
  /\ progress' = other.progress
  /\ response' = response
  /\ original_resume' = other.original_resume
  /\ job_analysis' = other.job_analysis
  /\ skill_matches' = other.skill_matches
  /\ tailored_resume' = other.tailored_resume
  /\ verification' = other.verification
  /\ change_report' = other.change_report
  /\ calls' = other.calls
  /\ inference_calls' = other.inference_calls
  /\ raised' = other.raised
  /\ result' = other.result
  /\ delivered' = other.delivered
  /\ run' = other.run
  /\ UNCHANGED <<session_state, script>>

\* the running invocation is suspended and the other one resumed; agents and
\* client hold nothing that process or a stage writes (BaseAgent.__init__)
Switch ==
  /\ other.pc # "none"
  /\ pc \in SwitchPoints
  /\ other' = Context
  /\ pc' = other.pc
  /\ on_progress' = other.on_progress
  /\ progress' = other.progress
  /\ response' = other.response
  /\ original_resume' = other.original_resume
  /\ job_analysis' = other.job_analysis
  /\ skill_matches' = other.skill_matches
  /\ tailored_resume' = other.tailored_resume
  /\ verification' = other.verification
  /\ change_report' = other.change_report
  /\ calls' = other.calls
  /\ inference_calls' = other.inference_calls
  /\ raised' = other.raised
  /\ result' = other.result
  /\ delivered' = other.delivered
  /\ run' = other.run
  /\ UNCHANGED <<session_state, script>>

\* the arguments of the two invocations
ResumeTextOf(r) == IF r = 1 THEN "resume text" ELSE "second resume text"

JobTextOf(r) == IF r = 1 THEN "job text" ELSE "second job text"

\* what the first three inference calls of the earlier invocation returned
EarlierDelivered ==
  <<CHOOSE r \in ParseResponses : ~ParseRaises(r) /\ r.raw_text = Absent,
    CHOOSE r \in AnalyzeResponses : ~AnalyzeRaises(r),
    CHOOSE r \in MatchResponses : ~MatchRaises(r)>>

\* an invocation that has reached its tailor stage
AtTailorStage(r) ==
  LET resume == parse(ResumeTextOf(r), EarlierDelivered[1])
      job == analyze(JobTextOf(r), EarlierDelivered[2])
  IN [pc |-> "tailor_notify", on_progress |-> "none", progress |-> <<>>,
      response |-> EarlierDelivered[3], original_resume |-> Set(resume),
      job_analysis |-> Set(job),
      skill_matches |-> Set(match(resume, job, EarlierDelivered[3])),
      tailored_resume |-> Unset, verification |-> Unset,
      change_report |-> Unset, calls |-> <<"parse", "analyze", "match">>,
      inference_calls |-> 3, raised |-> "none", result |-> Unset,
      delivered |-> EarlierDelivered, run |-> r]

\* process is invoked while an earlier invocation is at its tailor stage
InitConcurrent ==
  /\ pc = "parse_notify"
  /\ on_progress = "none"
  /\ progress = <<>>
  /\ response = NoResponse
  /\ original_resume = Unset
  /\ job_analysis = Unset
  /\ skill_matches = Unset
  /\ tailored_resume = Unset
  /\ verification = Unset
  /\ change_report = Unset
  /\ calls = <<>>
  /\ inference_calls = 0
  /\ raised = "none"
  /\ result = Unset
  /\ delivered = <<>>
  /\ run = 1
  /\ other = AtTailorStage(2)
  /\ session_state = NoSession
  /\ script = NoScript

NextConcurrent == Next \/ Switch

SpecConcurrent == InitConcurrent /\ [][NextConcurrent]_vars

\* the invocation with context c holds what it holds when run alone: every
\* output is the stage applied to its own arguments, its own earlier
\* outputs and the response delivered to it
RunsAlone(c) ==
  /\ Len(c.delivered) = c.inference_calls
  /\ c.pc \in WaitPositions => c.response = c.delivered[Len(c.delivered)]
  /\ c.original_resume.set =>
       c.original_resume.val = parse(ResumeTextOf(c.run), c.delivered[1])
  /\ c.job_analysis.set =>
       c.job_analysis.val = analyze(JobTextOf(c.run), c.delivered[2])
  /\ c.skill_matches.set =>
       c.skill_matches.val =
         match(c.original_resume.val, c.job_analysis.val, c.delivered[3])
  /\ c.tailored_resume.set =>
       c.tailored_resume.val = tailor(c.original_resume.val, c.delivered[4])
  /\ c.verification.set =>
       c.verification.val =
         verify(c.original_resume.val, c.tailored_resume.val, c.delivered[5])
  /\ c.change_report.set =>
       c.change_report.val =
         generate_change_report(c.skill_matches.val, c.tailored_resume.val,
                                c.verification.val)
  /\ c.result.set =>
       IF c.result.val.success
       THEN c.result.val =
              [success |-> TRUE, original_resume |-> c.original_resume,
               job_analysis |-> c.job_analysis,
               skill_matches |-> c.skill_matches,
               tailored_resume |-> c.tailored_resume,
               verification |-> c.verification,
               change_report |-> c.change_report, error |-> Unset]
       ELSE c.result.val = FailureResult(c.raised)

\* C20: two invocations interleaved at stage boundaries and inference calls
\* do not interact: each holds and returns what it would when run alone on
\* its own inputs.
C20_NoInteraction == RunsAlone(Context) /\ RunsAlone(other)

C20_Witness ==
  /\ pc \in WaitPositions
  /\ other.pc \in WaitPositions
  /\ pc # other.pc
  /\ inference_calls > 1
  /\ other.inference_calls > 3

\* ------------------------------------------------------------------
\* C21: every issue of a report that verify produced has severity
\* 'critical' or 'warning'.
C21_SeverityDomain ==
  verification.set =>
    \A i \in 1..Len(verification.val.issues) :
       verification.val.issues[i].severity \in {"critical", "warning"}

\* ------------------------------------------------------------------
\* the tailor stage over the summaries and skills the response can carry

SummaryResumes ==
  {[ResumeWith(<<ExpAcme>>) EXCEPT !.summary = su, !.skills = sk] :
     su \in {None, "Original summary"},
     sk \in {<<>>, <<"Python", "SQL">>}}

SummaryData ==
  {TailorDataWith(e, su, sk, AbsentKey) :
     e \in {AbsentKey, ListKey(<<GenForged>>)},
     su \in {Absent, Null, "", "New summary"},
     sk \in {AbsentKey, NullKey, ListKey(<<>>), ListKey(<<"SQL", "Python">>)}}

InitSummary ==
  /\ Reached("tailor_wait", 4)
  /\ response \in SummaryData
  /\ original_resume \in {Set(r) : r \in SummaryResumes}
  /\ job_analysis = Set(SomeJob)
  /\ skill_matches = Set(SomeMatch(50))
  /\ tailored_resume = Unset
  /\ verification = Unset
  /\ change_report = Unset

NextSummary == TailorReturn \/ TailorRaise

SpecSummary == InitSummary /\ [][NextSummary]_vars

\* C22: the output summary is the returned summary when there is a new one,
\* and the original summary when the key is absent, null or the empty string.
C22_SummaryRetained ==
  tailored_resume.set =>
    tailored_resume.val.summary =
      IF response.summary \in {Absent, Null, ""}
      THEN original_resume.val.summary ELSE response.summary

C22_Witness ==
  /\ tailored_resume.set
  /\ response.summary = ""
  /\ original_resume.val.summary = "Original summary"
  /\ tailored_resume.val.summary = "Original summary"

\* C23: when the response carries no skills (key absent or value null),
\* tailor does not fail and its output skills are the original skills.
C23_SkillsFallBack ==
  response.skills.k \in {"absent", "null"} =>
    /\ pc = "tailor_wait" => ~TailorRaises(original_resume.val, response)
    /\ tailored_resume.set =>
         tailored_resume.val.skills = original_resume.val.skills

\* ------------------------------------------------------------------
\* the report over matched lists with and without suggestions

MaxListed == 6

SkillNamed(i) ==
  <<"Python", "SQL", "Go", "Rust", "Java", "Scala", "Perl", "Ruby">>[((i - 1) % 8) + 1]

\* matched lists in which each entry carries a suggestion or the empty one
SuggestionLists ==
  UNION {{[i \in 1..n |->
             SkillData(SkillNamed(i), "strong", ListKey(<<SkillNamed(i)>>),
                       sg[i])] :
            sg \in [1..n -> {"", "Lead with it"}]} : n \in 0..MaxListed}

InitImprovements ==
  /\ Reached("report_call", 5)
  /\ response = NoResponse
  /\ original_resume = Set(NoResume)
  /\ job_analysis = Set(SomeJob)
  /\ skill_matches \in
       {Set(match(NoResume, SomeJob,
                  MatchDataWith(ListKey(m), AbsentKey, AbsentKey, Number(50)))) :
          m \in SuggestionLists}
  /\ tailored_resume = Set(SomeTailored(NoResume, 0))
  /\ verification = Set(SomeVerification("warning"))
  /\ change_report = Unset

NextImprovements == Report \/ CompleteNotify \/ Return

SpecImprovements == InitImprovements /\ [][NextImprovements]_vars

\* the matched skills that carry a suggestion, in list order
Suggested(matched) ==
  LET Carries(m) == m.suggestion # "" IN SelectSeq(matched, Carries)

\* C24: key_improvements are the first 5 matched skills that carry a
\* non-empty suggestion, in order, each as 'Highlighted <skill>: <suggestion>'.
C24_FirstFiveSuggested ==
  change_report.set =>
    LET suggested == Suggested(skill_matches.val.matched_skills)
        first == SubSeq(suggested, 1, Min(5, Len(suggested)))
    IN change_report.val.key_improvements =
         [i \in 1..Len(first) |-> KeyImprovement(first[i])]

\* ------------------------------------------------------------------
\* the report over the verifier's warnings and issues

WarningVerifications ==
  {verify(NoResume, SomeTailored(NoResume, 0),
          VerifyDataWith("approved", ListKey(q), w)) :
     q \in SeqsUpTo({IssueData(l, sev) : l \in {"Experience 1", "Summary"},
                                         sev \in {"critical", "warning"}},
                    MaxIssues),
     w \in {AbsentKey, ListKey(<<"Check the wording">>),
            ListKey(<<"Check the dates", "Check the wording">>)}}

InitWarnings ==
  /\ Reached("report_call", 5)
  /\ response = NoResponse
  /\ original_resume = Set(NoResume)
  /\ job_analysis = Set(SomeJob)
  /\ skill_matches = Set(SomeMatch(50))
  /\ tailored_resume = Set(SomeTailored(NoResume, 0))
  /\ verification \in {Set(v) : v \in WarningVerifications}
  /\ change_report = Unset

NextWarnings == Report \/ CompleteNotify \/ Return

SpecWarnings == InitWarnings /\ [][NextWarnings]_vars

\* the verifier's issues of severity 'warning', in issue order
WarningIssues(issues) ==
  LET IsWarning(issue) == issue.severity = "warning"
  IN SelectSeq(issues, IsWarning)

\* C25 as stated: the report's warnings are the verifier's warnings followed
\* by the description of each issue of severity 'warning'.
C25_WarningsAreDescriptions ==
  change_report.set =>
    LET own == verification.val.warnings
        added == WarningIssues(verification.val.issues)
    IN change_report.val.warnings =
         [i \in 1..Len(own) |-> Text(own[i])]
           \o [i \in 1..Len(added) |-> Text(added[i].issue)]

\* C25 amended: the report's warnings are the verifier's warnings, in order,
\* followed by '<location>: <description>' for each issue of severity
\* 'warning', in issue order; critical issues add nothing and the verifier's
\* result, its warnings included, is what it was before the report was built.
C25_WarningsAggregated ==
  /\ verification.val \in WarningVerifications
  /\ change_report.set =>
       LET own == verification.val.warnings
           added == WarningIssues(verification.val.issues)
       IN /\ change_report.val.warnings =
               [i \in 1..Len(own) |-> Text(own[i])]
                 \o [i \in 1..Len(added) |->
                       <<added[i].location, ": ", added[i].issue>>]
          /\ change_report.val.verification = verification.val

C25_Witness ==
  /\ change_report.set
  /\ Len(verification.val.warnings) = 2
  /\ Len(verification.val.issues) = 2
  /\ verification.val.issues[1].severity = "critical"
  /\ verification.val.issues[2].severity = "warning"
  /\ Len(change_report.val.warnings) = 3

\* ------------------------------------------------------------------
\* the sum of the counts of a tally
SumOfCounts(tally) ==
  LET S[T \in SUBSET DOMAIN tally] ==
        IF T = {} THEN 0
        ELSE LET x == CHOOSE x \in T : TRUE IN tally[x] + S[T \ {x}]
  IN S[DOMAIN tally]

\* C26: total_changes is the length of the tailor stage's change list,
\* changes_by_section maps each section tag of that list to its number of
\* occurrences, and the counts sum to total_changes.
C26_ChangeTally ==
  change_report.set =>
    LET changes == tailored_resume.val.changes
        tally == change_report.val.changes_by_section
    IN /\ change_report.val.total_changes = Len(changes)
       /\ DOMAIN tally = {changes[i].section : i \in 1..Len(changes)}
       /\ \A s \in DOMAIN tally :
             tally[s] = Cardinality({i \in 1..Len(changes) :
                                       changes[i].section = s})
       /\ SumOfCounts(tally) = change_report.val.total_changes

C26_Witness ==
  /\ change_report.set
  /\ change_report.val.total_changes >= 4
  /\ Cardinality(DOMAIN change_report.val.changes_by_section) = 3
  /\ change_report.val.changes_by_section["experience"] >= 2

\* C27: in the report of a successful run improved_match_score is at least
\* original_match_score and both lie in [0,100].
C27_ScoresOrdered ==
  (result.set /\ result.val.success) =>
    LET report == result.val.change_report.val
    IN /\ report.improved_match_score >= report.original_match_score
       /\ report.original_match_score \in 0..100
       /\ report.improved_match_score \in 0..100

\* ------------------------------------------------------------------
\* C29: a matched entry is STRONG exactly when 'strong' was returned for it
\* and PARTIAL otherwise, a transferable entry is PARTIAL, and so MISSING
\* occurs only in missing_skills.
C29_StrengthByList ==
  skill_matches.set =>
    /\ \A i \in 1..Len(skill_matches.val.matched_skills) :
          skill_matches.val.matched_skills[i].strength =
            IF response.matched_skills.v[i].strength = "strong"
            THEN "strong" ELSE "partial"
    /\ \A i \in 1..Len(skill_matches.val.transferable_skills) :
          skill_matches.val.transferable_skills[i].strength = "partial"
    /\ \A i \in 1..Len(skill_matches.val.missing_skills) :
          skill_matches.val.missing_skills[i].strength = "missing"

C29_Witness ==
  /\ skill_matches.set
  /\ Len(skill_matches.val.matched_skills) >= 1
  /\ Len(skill_matches.val.transferable_skills) >= 1
  /\ response.matched_skills.v[1].strength = "missing"
  /\ response.transferable_skills.v[1].strength = "strong"
  /\ skill_matches.val.matched_skills[1].strength = "partial"

\* ------------------------------------------------------------------
\* C28: the sink receives the 100% notification only in runs that return
\* success; when a stage fails the sink has received the milestones up to and
\* including that stage's and no more.
C28_CompleteOnlyOnSuccess ==
  (on_progress # "none" /\ pc = "done") =>
    /\ (\E i \in 1..Len(progress) : Percents[i] = 100) => result.val.success
    /\ raised \in {StageOrder[i] : i \in 1..Len(StageOrder)} =>
         Percents = SubSeq(Milestones, 1, StageIndex(raised))

\* ------------------------------------------------------------------
\* The page (main.py). A script run executes main() from the top with the
\* session's state and dispatches on session_state.step. A click on a button
\* starts a script run in which that button's call returns True, provided the
\* run reaches the call; st.rerun() ends the run and starts another with no
\* button clicked. The locals of process are the variables of the pipeline
\* above; session_state.result is Unset for None.

MinPostingChars == 50

\* What the job posting widgets deliver: nothing, a fragment of 50 characters,
\* or the posting that job_text stands for.
Fragment == "job fragment"
PostingChars(text) ==
  CASE text = "" -> 0
    [] text = Fragment -> MinPostingChars
    [] OTHER -> MinPostingChars + 1

Idle == [status |-> "idle", clicked |-> "none"]
Rerun(clicked) == [status |-> "rerun", clicked |-> clicked]
Processing(clicked) == [status |-> "processing", clicked |-> clicked]

NewSession ==
  [step |-> 1, resume_text |-> None, job_text |-> None, result |-> Unset]

pipeline ==
  <<pc, on_progress, progress, response, original_resume, job_analysis,
    skill_matches, tailored_resume, verification, change_report, calls,
    inference_calls, raised, result, delivered, run, other>>

InitUI ==
  /\ pc = "none"
  /\ on_progress = "sink"
  /\ progress = <<>>
  /\ response = NoResponse
  /\ original_resume = Unset
  /\ job_analysis = Unset
  /\ skill_matches = Unset
  /\ tailored_resume = Unset
  /\ verification = Unset
  /\ change_report = Unset
  /\ calls = <<>>
  /\ inference_calls = 0
  /\ raised = "none"
  /\ result = Unset
  /\ delivered = <<>>
  /\ run = 1
  /\ other = NoRun
  /\ session_state = NewSession
  /\ script = Idle

\* render_step_1: the uploader holds a file, and parse_resume returns its
\* text or raises.
Upload ==
  /\ session_state.step = 1
  /\ script.status = "idle"
  /\ \E parsed \in {"text", "raises"} :
        session_state' =
          IF parsed = "text"
            THEN [session_state EXCEPT !.resume_text = resume_text]
            ELSE session_state
  /\ UNCHANGED <<script, pipeline>>

\* render_step_1, "Paste Text": the text area's content is stored unless it
\* is empty.
PasteJob ==
  /\ session_state.step = 1
  /\ script.status = "idle"
  /\ \E pasted \in {"", Fragment, job_text} :
        session_state' =
          IF pasted # ""
            THEN [session_state EXCEPT !.job_text = pasted]
            ELSE session_state
  /\ UNCHANGED <<script, pipeline>>

\* render_step_1, "Enter URL": get_job_text returns the page's text, which is
\* stored whatever its length, or raises.
FetchJob ==
  /\ session_state.step = 1
  /\ script.status = "idle"
  /\ \E fetched \in {"raises", "", Fragment, job_text} :
        session_state' =
          IF fetched # "raises"
            THEN [session_state EXCEPT !.job_text = fetched]
            ELSE session_state
  /\ UNCHANGED <<script, pipeline>>

can_process ==
  /\ session_state.resume_text # None
  /\ session_state.job_text # None
  /\ PostingChars(session_state.job_text) > MinPostingChars

\* The "Analyze and Tailor Resume" button, enabled by can_process.
ClickAnalyze ==
  /\ session_state.step = 1
  /\ script.status = "idle"
  /\ can_process
  /\ session_state' = [session_state EXCEPT !.step = 2]
  /\ script' = Rerun("none")
  /\ UNCHANGED pipeline

\* main() at step 1 after a st.rerun(): the inputs are drawn.
RenderStep1 ==
  /\ session_state.step = 1
  /\ script.status = "rerun"
  /\ script' = Idle
  /\ UNCHANGED <<session_state, pipeline>>

\* render_step_2 after its error message: the "Go Back" button is drawn, and
\* returns True in the run its click started.
GoBackButton ==
  IF script.clicked = "Go Back"
    THEN /\ session_state' = [session_state EXCEPT !.step = 1]
         /\ script' = Rerun("none")
    ELSE /\ script' = Idle
         /\ session_state' = [session_state EXCEPT !.step = session_state.step]

\* render_step_2 when ResumeOrchestrator() raises (get_settings without an
\* API key): the except clause.
OrchestratorRaise ==
  /\ session_state.step = 2
  /\ script.status = "rerun"
  /\ GoBackButton
  /\ UNCHANGED pipeline

\* render_step_2 up to the call of process with the session's texts and the
\* progress bar as its sink.
StartProcess ==
  /\ session_state.step = 2
  /\ script.status = "rerun"
  /\ script' = Processing(script.clicked)
  /\ pc' = "parse_notify"
  /\ on_progress' = "sink"
  /\ progress' = <<>>
  /\ response' = NoResponse
  /\ original_resume' = Unset
  /\ job_analysis' = Unset
  /\ skill_matches' = Unset
  /\ tailored_resume' = Unset
  /\ verification' = Unset
  /\ change_report' = Unset
  /\ calls' = <<>>
  /\ inference_calls' = 0
  /\ raised' = "none"
  /\ result' = Unset
  /\ delivered' = <<>>
  /\ UNCHANGED <<session_state, run, other>>

\* render_step_2 from the return of process: the result is stored, a success
\* moves to step 3 and reruns, a failure draws the error and "Go Back".
StoreResult ==
  /\ session_state.step = 2
  /\ script.status = "processing"
  /\ pc = "done"
  /\ IF result.val.success
       THEN /\ session_state' =
                 [session_state EXCEPT !.result = result, !.step = 3]
            /\ script' = Rerun("none")
       ELSE /\ script' =
                 IF script.clicked = "Go Back" THEN Rerun("none") ELSE Idle
            /\ session_state' =
                 [session_state EXCEPT
                    !.result = result,
                    !.step = IF script.clicked = "Go Back" THEN 1 ELSE 2]
  /\ UNCHANGED pipeline

\* main() at step 3 after a st.rerun(): the results and "Start Over".
RenderStep3 ==
  /\ session_state.step = 3
  /\ script.status = "rerun"
  /\ script' = Idle
  /\ UNCHANGED <<session_state, pipeline>>

\* A click on "Go Back": the script runs again at step 2.
ClickGoBack ==
  /\ session_state.step = 2
  /\ script.status = "idle"
  /\ script' = Rerun("Go Back")
  /\ UNCHANGED <<session_state, pipeline>>

\* A click on "Start Over" and the run of render_step_3 it starts: the button
\* under "No results available" resets the step alone, the one under the
\* results clears the session's inputs and result as well.
ClickStartOver ==
  /\ session_state.step = 3
  /\ script.status = "idle"
  /\ session_state' =
       IF ~session_state.result.set \/ ~session_state.result.val.success
         THEN [session_state EXCEPT !.step = 1]
         ELSE NewSession
  /\ script' = Rerun("none")
  /\ UNCHANGED pipeline

NextUI ==
  \/ Upload \/ PasteJob \/ FetchJob \/ ClickAnalyze \/ RenderStep1
  \/ OrchestratorRaise \/ StartProcess \/ Next \/ StoreResult
  \/ ClickGoBack \/ RenderStep3 \/ ClickStartOver

SpecUI == InitUI /\ [][NextUI]_vars

\* Step 3 is entered from step 2 alone, by the script run in which process
\* returned a success and that result was stored in the session.
Step3OnlyAfterSuccess ==
  (session_state.step # 3 /\ session_state'.step = 3) =>
    /\ session_state.step = 2
    /\ result.set
    /\ result.val.success
    /\ session_state'.result = result

\* Step 2 has shown a failure when its script run has ended, and until the run
\* started by the click on "Go Back" has ended.
FailureShown ==
  /\ session_state.step = 2
  /\ script.status = "idle" \/ script.clicked = "Go Back"

\* From a failure shown at step 2 the user can only click "Go Back", and the
\* page leaves step 2 only for step 1.
FailureOnlyGoesBack ==
  FailureShown =>
    /\ session_state'.step \in {1, 2}
    /\ script.status = "idle" => script' = Rerun("Go Back")

\* "Start Over" leaves step 3 for step 1 with the inputs and result cleared.
StartOverClears ==
  (session_state.step = 3 /\ session_state'.step # 3) =>
    session_state' = NewSession

\* C30: over any sequence of user actions, step 3 is entered only from step 2
\* after process returned success=True and that result was stored in the
\* session; a failed result or an exception in step 2 leaves the page at step
\* 2 with only a "Go Back" to step 1; and "Start Over" returns to step 1 with
\* resume_text, job_text and result all cleared.
C30_StepMachine ==
  [][Step3OnlyAfterSuccess /\ FailureOnlyGoesBack /\ StartOverClears]_vars

====
